---- MODULE Spec2Model ----
(***************************************************************************)
(* A model of pysqlite: the paged B-Tree storage engine, its undo journal, *)
(* the directory lock and the execution engine's transaction wrapping.     *)
(*                                                                         *)
(* A data file is a sequence of pages; page n is element n+1.  A page is   *)
(* a record with a kind: "zero" (all zero bytes, read as None), "meta"     *)
(* (the metadata dict of page 0), "node" (a pickled BTreeNode) or          *)
(* "garbage" (bytes that pickle cannot load).  A journal is a sequence of  *)
(* entries (page number, pre-image); the pre-image is "short" when the     *)
(* page lay at or beyond the end of the data file when it was journaled    *)
(* (dbf.read returns no bytes there).                                      *)
(***************************************************************************)
EXTENDS Integers, Sequences, FiniteSets, TLC

(***************************************************************************)
(* Bounds of the model.                                                    *)
(***************************************************************************)
\* storage_engine.py:7 sets BTREE_ORDER = 16; the model runs the same code
\* with a smaller order so that full nodes and splits are reached.
BTREE_ORDER == 2
\* INSERT is offered only while the table file holds fewer rows than this.
MaxRows == 4
\* Primary-key values offered to INSERT are 1..MaxKey.
MaxKey == 1
\* Primary-key values of the statements of TableSpec are 1..MaxTableKey.
MaxTableKey == 2
\* In QuerySpec INSERT is offered while the table holds fewer rows than this.
MaxQueryRows == 2
\* Primary-key values of the INSERT statements of TreeSpec are 1..MaxTreeKey.
MaxTreeKey == 4
\* In TreeSpec INSERT is offered while the table holds fewer rows than this.
MaxTreeRows == 5

\* None, as a primary-key or column value (storage_engine.py:128): no int
\* that a key, a column, a count or a sum can be.
NULL == -1

Procs == {1, 2}
Tables == {"t", "u"}
Keys == 1..MaxKey

(***************************************************************************)
(* Pages and files.                                                        *)
(***************************************************************************)
ZeroPage == [kind |-> "zero"]
GarbagePage == [kind |-> "garbage"]
ShortData == [kind |-> "short"]

\* storage_engine.py:117, the metadata dict; schema, primary_key and indexes
\* never change after create_table (StorageEngine has no create_index).
Metadata(root, next) == [kind |-> "meta", root_page |-> root, next_page |-> next]

\* storage_engine.py:9-14
BTreeNode(leaf) ==
    [kind |-> "node", is_leaf |-> leaf, keys |-> <<>>, values |-> <<>>, children |-> <<>>]

Record(k, v) == [id |-> k, v |-> v]

Max(a, b) == IF a >= b THEN a ELSE b

\* dbf.seek(n * PAGE_SIZE); dbf.read(PAGE_SIZE): no bytes at or beyond the end.
RawRead(pages, n) == IF n < Len(pages) THEN pages[n + 1] ELSE ShortData

\* _read_page: None for a page of zero bytes and for a read past the end.
read_page(pages, n) == IF n < Len(pages) THEN pages[n + 1] ELSE ZeroPage

\* f.seek(offset); f.write(page): a write past the end leaves a hole of zeros.
WriteAt(pages, n, page) ==
    [i \in 1..Max(Len(pages), n + 1) |->
        IF i = n + 1 THEN page ELSE IF i <= Len(pages) THEN pages[i] ELSE ZeroPage]

(***************************************************************************)
(* The state a storage-engine call works on: the files and journals of the *)
(* directory, the caller's transaction_active and journaled_pages, the     *)
(* metadata dict the B-Tree code passes around, a return slot, the         *)
(* number of rows an UPDATE or DELETE reports, the exception raised so far *)
(* ("ok" when none, "hang" when the call does not return) and the          *)
(* directory contents after each file-system write so far.                 *)
(***************************************************************************)
\* journaled_pages = {}: the keys in insertion order, and each key's set of pages.
NoJournaled == [order |-> <<>>, pages |-> [f \in Tables |-> {}]]

World(files, jrnl, ta, jp) ==
    [files |-> files, jrnl |-> jrnl, ta |-> ta, jp |-> jp,
     meta |-> ZeroPage, ret |-> ZeroPage, node |-> ZeroPage, count |-> 0,
     err |-> "ok", trace |-> <<>>]

Ok(w) == w.err = "ok"
Raise(w, e) == IF Ok(w) THEN [w EXCEPT !.err = e] ELSE w
Snap(w) == [w EXCEPT !.trace = Append(@, [files |-> w.files, jrnl |-> w.jrnl])]

\* The exception an object of the wrong shape raises when it is used as `kind`.
Misread(page, kind) ==
    CASE page.kind = kind -> "ok"
      [] page.kind = "garbage" -> "UnpicklingError"
      [] page.kind = "zero" -> IF kind = "meta" THEN "TypeError" ELSE "AttributeError"
      [] OTHER -> "TypeError"

(***************************************************************************)
(* _write_page, lines 93-111.                                              *)
(***************************************************************************)
InSeq(x, s) == \E i \in 1..Len(s) : s[i] = x

write_page_journal(w, f, n) ==
    IF w.ta /\ n \notin w.jp.pages[f]
    THEN Snap([w EXCEPT !.jrnl[f] = Append(@, [page |-> n, data |-> RawRead(w.files[f], n)]),
                        !.jp.order = IF InSeq(f, @) THEN @ ELSE Append(@, f),
                        !.jp.pages[f] = @ \cup {n}])
    ELSE w

write_page(w, f, n, page) ==
    IF ~Ok(w) THEN w
    ELSE LET w1 == write_page_journal(w, f, n)
         IN Snap([w1 EXCEPT !.files[f] = WriteAt(@, n, page)])

(***************************************************************************)
(* _perform_rollback, lines 75-91.  The loop reads a 4-byte header and     *)
(* then PAGE_SIZE bytes, whatever the entry boundaries are: after a short  *)
(* entry the reads are no longer aligned with the entries.  `c` is the     *)
(* number of bytes of entry i-1 still unread (0 when aligned).  Page       *)
(* payloads are far smaller than PAGE_SIZE, so the unread tail of a        *)
(* pre-image is zero bytes and a misaligned header reads page number 0.    *)
(***************************************************************************)
\* The page that results from writing `len` bytes at the start of page n,
\* when the bytes are all zero (zero) and fill the page (whole) or not.
Overwrite(pages, n, len, zero, whole) ==
    IF whole THEN WriteAt(pages, n, IF zero THEN ZeroPage ELSE GarbagePage)
    ELSE IF zero /\ read_page(pages, n) = ZeroPage
         THEN (IF n < Len(pages) THEN pages ELSE WriteAt(pages, n, ZeroPage))
         ELSE WriteAt(pages, n, GarbagePage)

RECURSIVE Gather(_, _, _, _, _, _)
RECURSIVE Replay(_, _, _, _)

\* jf.read(PAGE_SIZE) starting at the header of entry j, for a write to page n;
\* `len` bytes were gathered so far, all zero iff `zero`.  Like Replay, the
\* result is the sequence of the file's contents after each dbf.write.
Gather(pages, jl, j, n, len, zero) ==
    IF j > Len(jl)
    THEN IF len = 0 THEN <<>> ELSE <<Overwrite(pages, n, len, zero, FALSE)>>
    ELSE IF jl[j].data = ShortData
         THEN Gather(pages, jl, j + 1, n, len + 4, zero /\ jl[j].page = 0)
         ELSE LET next == Overwrite(pages, n, 4096,
                                    zero /\ jl[j].page = 0 /\ jl[j].data = ZeroPage, TRUE)
              IN <<next>> \o Replay(next, jl, j + 1, len + 4)

Replay(pages, jl, i, c) ==
    IF c = 0
    THEN IF i > Len(jl) THEN <<>>
         ELSE IF jl[i].data = ShortData
              THEN Gather(pages, jl, i + 1, jl[i].page, 0, TRUE)
              ELSE LET next == WriteAt(pages, jl[i].page, jl[i].data)
                   IN <<next>> \o Replay(next, jl, i + 1, 0)
    ELSE Gather(pages, jl, i, 0, c - 4, TRUE)

RECURSIVE SnapEach(_, _, _, _)
SnapEach(w, f, hist, i) ==
    IF i > Len(hist) THEN w
    ELSE SnapEach(Snap([w EXCEPT !.files[f] = hist[i]]), f, hist, i + 1)

\* A _perform_rollback without its os.remove(journal_path).
perform_rollback_keep(w, f) ==
    IF ~Ok(w) \/ w.jrnl[f] = <<>> THEN w
    ELSE IF w.files[f] = <<>> THEN Raise(w, "FileNotFoundError")
    ELSE SnapEach(w, f, Replay(w.files[f], w.jrnl[f], 1, 0), 1)

\* _perform_rollback(db_path, journal_path): every write of the replay, then
\* os.remove(journal_path).
perform_rollback(w, f) ==
    IF ~Ok(w) \/ w.jrnl[f] = <<>> THEN w
    ELSE IF w.files[f] = <<>> THEN Raise(Snap([w EXCEPT !.jrnl[f] = <<>>]), "FileNotFoundError")
    ELSE LET w1 == SnapEach(w, f, Replay(w.files[f], w.jrnl[f], 1, 0), 1)
         IN Snap([w1 EXCEPT !.jrnl[f] = <<>>])

(***************************************************************************)
(* Python list operations, with 0-based positions as in the source.        *)
(***************************************************************************)
Min(a, b) == IF a <= b THEN a ELSE b

\* s[a:b]
Slice(s, a, b) == [i \in 1..Max(0, Min(b, Len(s)) - a) |-> s[a + i]]

\* s.insert(i, x)
ListInsert(s, i, x) == Slice(s, 0, i) \o <<x>> \o Slice(s, i, Len(s))

\* s.pop(i)
ListPop(s, i) == Slice(s, 0, i) \o Slice(s, i + 1, Len(s))

RECURSIVE Flatten(_)
Flatten(ss) == IF ss = <<>> THEN <<>> ELSE Head(ss) \o Flatten(Tail(ss))

(***************************************************************************)
(* _find_page_of_node, lines 222-238: a breadth-first search from          *)
(* start_page for the first node whose first key is `key` (is_delete: that *)
(* holds `key`).  The queue is walked level by level, which is the order   *)
(* q.pop(0) visits it in.  When no node matches and the pages reachable    *)
(* from start_page form a cycle the loop never ends: "hang".               *)
(***************************************************************************)
FindMatch(node, key, is_delete) ==
    /\ node.kind = "node"
    /\ node.keys # <<>>
    /\ IF is_delete THEN \E j \in 1..Len(node.keys) : node.keys[j] = key
       ELSE node.keys[1] = key

\* The first page of `level` that stops the search: a match, or a page that
\* cannot be unpickled or is no node; 0 when there is none.
FindStop(pages, level, key, is_delete) ==
    LET stops == {j \in 1..Len(level) :
                    LET nd == read_page(pages, level[j])
                    IN nd.kind \in {"garbage", "meta"} \/ FindMatch(nd, key, is_delete)}
    IN IF stops = {} THEN 0 ELSE CHOOSE j \in stops : \A k \in stops : j <= k

FindChildren(pages, level) ==
    Flatten([j \in 1..Len(level) |->
                LET nd == read_page(pages, level[j])
                IN IF nd.kind = "node" /\ ~nd.is_leaf THEN nd.children ELSE <<>>])

RECURSIVE FindLevel(_, _, _, _, _, _, _)
FindLevel(pages, level, depth, start, key, is_delete, is_child) ==
    LET j == FindStop(pages, level, key, is_delete)
    IN IF j # 0
       THEN LET nd == read_page(pages, level[j])
            IN IF nd.kind = "node" THEN [err |-> "ok", page |-> level[j]]
               ELSE [err |-> Misread(nd, "node"), page |-> 0]
       ELSE LET next == FindChildren(pages, level)
            IN IF next = <<>>
               THEN [err |-> "ok", page |-> IF is_child THEN start + 1 ELSE start]
               ELSE IF depth > Len(pages) THEN [err |-> "hang", page |-> 0]
               ELSE FindLevel(pages, next, depth + 1, start, key, is_delete, is_child)

find_page_of_node(pages, start, key, is_delete, is_child) ==
    FindLevel(pages, <<start>>, 0, start, key, is_delete, is_child)

\* self._write_page(file_path, self._find_page_of_node(...), node)
write_found(w, f, key, is_delete, is_child, node) ==
    IF ~Ok(w) THEN w
    ELSE LET r == find_page_of_node(w.files[f], w.meta.root_page, key, is_delete, is_child)
         IN IF r.err # "ok" THEN Raise(w, r.err) ELSE write_page(w, f, r.page, node)

(***************************************************************************)
(* _split_child, lines 203-220.  child_index is 0-based.  The mutated      *)
(* parent is returned in w.node and metadata['next_page'] is advanced in   *)
(* the dict only.                                                          *)
(***************************************************************************)
split_child(w, f, parent_node, child_index, child_node) ==
    IF ~Ok(w) THEN w
    ELSE
    LET new_node_page == w.meta.next_page
        mid_index == BTREE_ORDER - 1
        parent == [parent_node EXCEPT
                     !.keys = ListInsert(@, child_index, child_node.keys[mid_index + 1]),
                     !.children = ListInsert(@, child_index + 1, new_node_page)]
        new_node == [BTreeNode(child_node.is_leaf) EXCEPT
                     !.keys = Slice(child_node.keys, mid_index + 1, Len(child_node.keys)),
                     !.children = IF child_node.is_leaf THEN <<>>
                                  ELSE Slice(child_node.children, mid_index + 1,
                                             Len(child_node.children)),
                     !.values = IF child_node.is_leaf
                                THEN Slice(child_node.values, mid_index + 1,
                                           Len(child_node.values))
                                ELSE <<>>]
        child == [child_node EXCEPT
                     !.keys = Slice(@, 0, mid_index),
                     !.children = IF child_node.is_leaf THEN @ ELSE Slice(@, 0, mid_index + 1),
                     !.values = IF child_node.is_leaf THEN Slice(@, 0, mid_index) ELSE @]
        w0 == [w EXCEPT !.meta.next_page = @ + 1, !.node = parent]
        w1 == write_found(w0, f, parent.keys[1], FALSE, FALSE, parent)
        w2 == write_found(w1, f, IF child.keys # <<>> THEN child.keys[1] ELSE -1,
                          FALSE, TRUE, child)
    IN write_page(w2, f, new_node_page, new_node)

(***************************************************************************)
(* _insert_non_full, lines 178-201.                                        *)
(***************************************************************************)
\* The loop `while i >= 0 and key < node.keys[i]: i -= 1`, then i + 1.
InsertPos(keys, key) ==
    LET stay == {j \in 1..Len(keys) : ~(key < keys[j])}
    IN IF stay = {} THEN 0 ELSE CHOOSE j \in stay : \A k \in stay : k <= j

RECURSIVE insert_non_full(_, _, _, _, _, _)
RECURSIVE insert_after_split(_, _, _, _, _, _)
insert_non_full(w, f, node, key, value, depth) ==
    IF ~Ok(w) THEN w
    ELSE IF Misread(node, "node") # "ok" THEN Raise(w, Misread(node, "node"))
    ELSE IF depth > Len(w.files[f]) THEN Raise(w, "RecursionError")
    ELSE IF node.is_leaf
    THEN LET i == InsertPos(node.keys, key)
             leaf == [node EXCEPT !.keys = ListInsert(@, i, key),
                                  !.values = ListInsert(@, i, value)]
         IN write_found(w, f, leaf.keys[1], FALSE, FALSE, leaf)
    ELSE LET i == InsertPos(node.keys, key)
         IN IF i >= Len(node.children) THEN Raise(w, "IndexError")
            ELSE
            LET child_node == read_page(w.files[f], node.children[i + 1])
            IN IF Misread(child_node, "node") # "ok"
               THEN Raise(w, Misread(child_node, "node"))
               ELSE IF Len(child_node.keys) = 2 * BTREE_ORDER - 1
               THEN insert_after_split(split_child(w, f, node, i, child_node),
                                       f, i, key, value, depth)
               ELSE insert_non_full(w, f, child_node, key, value, depth + 1)

\* Lines 196-201: after _split_child the parent (in w.node) tells the side.
insert_after_split(w, f, i, key, value, depth) ==
    IF ~Ok(w) THEN w
    ELSE LET i2 == IF key > w.node.keys[i + 1] THEN i + 1 ELSE i
         IN insert_non_full(w, f, read_page(w.files[f], w.node.children[i2 + 1]),
                            key, value, depth + 1)

(***************************************************************************)
(* _btree_insert, lines 159-176.                                           *)
(***************************************************************************)
\* self._write_page(path, new_root_page_num, new_root), line 172
write_new_root(w, f, new_root_page_num) ==
    write_page(w, f, new_root_page_num, w.node)

\* metadata['root_page'] = new_root_page_num; self._write_page(path, 0,
\* metadata), lines 173-174
write_root_page(w, f, new_root_page_num) ==
    IF ~Ok(w) THEN w
    ELSE write_page([w EXCEPT !.meta.root_page = new_root_page_num], f, 0,
                    [w.meta EXCEPT !.root_page = new_root_page_num])

\* self._insert_non_full(new_root, ...), line 176
insert_new_root(w, f, key, value) == insert_non_full(w, f, w.node, key, value, 0)

btree_insert(w, f, key, value) ==
    IF ~Ok(w) THEN w
    ELSE
    LET metadata == read_page(w.files[f], 0)
    IN IF Misread(metadata, "meta") # "ok" THEN Raise(w, Misread(metadata, "meta"))
       ELSE
       LET root_page_num == metadata.root_page
           root == read_page(w.files[f], root_page_num)
       IN IF Misread(root, "node") # "ok" THEN Raise(w, Misread(root, "node"))
          ELSE IF Len(root.keys) = 2 * BTREE_ORDER - 1
          THEN insert_new_root(
                  write_root_page(
                     write_new_root(
                        split_child([w EXCEPT !.meta = [metadata EXCEPT !.next_page = @ + 1]],
                                    f, [BTreeNode(FALSE) EXCEPT !.children = <<root_page_num>>],
                                    0, root),
                        f, metadata.next_page),
                     f, metadata.next_page),
                  f, key, value)
          ELSE insert_non_full([w EXCEPT !.meta = metadata], f, root, key, value, 0)

(***************************************************************************)
(* _btree_delete and _delete_recursive, lines 263-290.                     *)
(***************************************************************************)
\* The loop `while i < len(node.keys) and key > node.keys[i]: i += 1`.
SearchPos(keys, key) ==
    LET stop == {j \in 1..Len(keys) : ~(key > keys[j])}
    IN IF stop = {} THEN Len(keys) ELSE (CHOOSE j \in stop : \A k \in stop : j <= k) - 1

RECURSIVE delete_recursive(_, _, _, _, _)
delete_recursive(w, f, node, key, depth) ==
    IF ~Ok(w) THEN w
    ELSE IF Misread(node, "node") # "ok" THEN Raise(w, Misread(node, "node"))
    ELSE IF depth > Len(w.files[f]) THEN Raise(w, "RecursionError")
    ELSE
    LET i == SearchPos(node.keys, key)
    IN IF i < Len(node.keys) /\ node.keys[i + 1] = key
       THEN IF node.is_leaf
            THEN write_found(w, f, key, TRUE, FALSE,
                             [node EXCEPT !.keys = ListPop(@, i), !.values = ListPop(@, i)])
            ELSE Raise(w, "NotImplementedError")
       ELSE IF node.is_leaf THEN w
       ELSE IF i >= Len(node.children) THEN Raise(w, "IndexError")
       ELSE LET child_node == read_page(w.files[f], node.children[i + 1])
            IN IF child_node = ZeroPage THEN w
               ELSE delete_recursive(w, f, child_node, key, depth + 1)

\* Lines 268-271: an internal root left without keys hands over to its
\* first child.
shrink_root(w, f, metadata, root) ==
    IF ~Ok(w) THEN w
    ELSE IF Len(root.keys) = 0 /\ ~root.is_leaf
    THEN IF root.children = <<>> THEN Raise(w, "IndexError")
         ELSE write_page([w EXCEPT !.meta.root_page = root.children[1]], f, 0,
                         [metadata EXCEPT !.root_page = root.children[1]])
    ELSE w

btree_delete(w, f, key) ==
    IF ~Ok(w) THEN w
    ELSE
    LET metadata == read_page(w.files[f], 0)
    IN IF Misread(metadata, "meta") # "ok" THEN Raise(w, Misread(metadata, "meta"))
       ELSE
       LET root == read_page(w.files[f], metadata.root_page)
       IN shrink_root(delete_recursive([w EXCEPT !.meta = metadata], f, root, key, 0),
                      f, metadata, root)

(***************************************************************************)
(* _btree_search, lines 313-329, and _traverse_all, lines 331-338.  Both   *)
(* return [err, val]; val is ZeroPage for None.                            *)
(***************************************************************************)
RECURSIVE SearchDown(_, _, _, _)
SearchDown(pages, node, key, depth) ==
    IF node = ZeroPage THEN [err |-> "ok", val |-> ZeroPage]
    ELSE IF Misread(node, "node") # "ok" THEN [err |-> Misread(node, "node"), val |-> ZeroPage]
    ELSE IF ~node.is_leaf
    THEN IF depth > Len(pages) THEN [err |-> "hang", val |-> ZeroPage]
         ELSE LET i == SearchPos(node.keys, key)
              IN IF i >= Len(node.children) THEN [err |-> "IndexError", val |-> ZeroPage]
                 ELSE SearchDown(pages, read_page(pages, node.children[i + 1]), key, depth + 1)
    ELSE LET i == SearchPos(node.keys, key)
         IN IF i < Len(node.keys) /\ node.keys[i + 1] = key
            THEN [err |-> "ok", val |-> node.values[i + 1]]
            ELSE [err |-> "ok", val |-> ZeroPage]

btree_search(pages, key) ==
    LET metadata == read_page(pages, 0)
    IN IF pages = <<>> THEN [err |-> "FileNotFoundError", val |-> ZeroPage]
       ELSE IF Misread(metadata, "meta") # "ok"
       THEN [err |-> Misread(metadata, "meta"), val |-> ZeroPage]
       ELSE SearchDown(pages, read_page(pages, metadata.root_page), key, 0)

RECURSIVE traverse_all(_, _, _)
RECURSIVE TraverseChildren(_, _, _, _)
traverse_all(pages, node, depth) ==
    IF node = ZeroPage THEN [err |-> "ok", val |-> <<>>]
    ELSE IF Misread(node, "node") # "ok" THEN [err |-> Misread(node, "node"), val |-> <<>>]
    ELSE IF node.is_leaf THEN [err |-> "ok", val |-> node.values]
    ELSE IF depth > Len(pages) THEN [err |-> "RecursionError", val |-> <<>>]
    ELSE TraverseChildren(pages, node.children, 1, depth)

TraverseChildren(pages, children, i, depth) ==
    IF i > Len(children) THEN [err |-> "ok", val |-> <<>>]
    ELSE LET r == traverse_all(pages, read_page(pages, children[i]), depth + 1)
         IN IF r.err # "ok" THEN r
            ELSE LET rest == TraverseChildren(pages, children, i + 1, depth)
                 IN IF rest.err # "ok" THEN rest
                    ELSE [err |-> "ok", val |-> r.val \o rest.val]

\* _btree_get_all, lines 307-311
btree_get_all(pages) ==
    LET metadata == read_page(pages, 0)
    IN IF pages = <<>> THEN [err |-> "FileNotFoundError", val |-> <<>>]
       ELSE IF Misread(metadata, "meta") # "ok"
       THEN [err |-> Misread(metadata, "meta"), val |-> <<>>]
       ELSE traverse_all(pages, read_page(pages, metadata.root_page), 0)

(***************************************************************************)
(* The storage-engine facade.                                              *)
(***************************************************************************)
\* get_table_metadata, lines 146-157, without its locking (see the actions):
\* the metadata in w.ret, ZeroPage for None.
get_table_metadata(w, f) ==
    IF ~Ok(w) THEN w
    ELSE IF w.files[f] = <<>> THEN Raise(w, "FileNotFoundError")
    ELSE LET page == read_page(w.files[f], 0)
         IN IF page = GarbagePage THEN Raise(w, "UnpicklingError")
            ELSE [w EXCEPT !.ret = page]

\* metadata[...]
Subscript(w) == IF Ok(w) /\ w.ret.kind # "meta" THEN Raise(w, "TypeError") ELSE w

\* create_table, lines 113-122
create_table(w, f) ==
    IF ~Ok(w) THEN w
    ELSE IF w.files[f] # <<>> THEN Raise(w, "FileExistsError")
    ELSE LET w1 == Snap([w EXCEPT !.files[f] = <<ZeroPage, ZeroPage>>])
             w2 == write_page(w1, f, 0, Metadata(1, 2))
         IN write_page(w2, f, 1, BTreeNode(TRUE))

\* insert_record, lines 124-136; metadata['indexes'] is always empty.
insert_checked(w, f, record) ==
    IF ~Ok(w) THEN w
    ELSE IF record.id = NULL THEN Raise(w, "ValueError")
    ELSE btree_insert(w, f, record.id, record)

insert_record(w, f, record) ==
    insert_checked(Subscript(get_table_metadata(w, f)), f, record)

\* delete_record, lines 249-261, called with record_data.
delete_record(w, f, pk_value) ==
    btree_delete(Subscript(get_table_metadata(w, f)), f, pk_value)

\* update_record, lines 240-247; new_data sets one column.
update_record(w, f, pk_value, new_data) ==
    IF ~Ok(w) THEN w
    ELSE LET r == btree_search(w.files[f], pk_value)
         IN IF r.err # "ok" THEN Raise(w, r.err)
            ELSE IF r.val = ZeroPage THEN Raise(w, "ValueError")
            ELSE LET updated_record == IF new_data.col = "id"
                                       THEN [r.val EXCEPT !.id = new_data.val]
                                       ELSE [r.val EXCEPT !.v = new_data.val]
                 IN insert_record(delete_record(w, f, pk_value), f, updated_record)

\* A commit_transaction that leaves the journal files where they are.
commit_journals_keep(w, i) == w

\* commit_transaction, lines 57-60: the journals of journaled_pages' keys.
RECURSIVE commit_journals(_, _)
commit_journals(w, i) ==
    IF i > Len(w.jp.order) THEN w
    ELSE LET f == w.jp.order[i]
         IN commit_journals(IF w.jrnl[f] # <<>> THEN Snap([w EXCEPT !.jrnl[f] = <<>>]) ELSE w,
                            i + 1)

\* rollback_transaction, lines 68-70
RECURSIVE rollback_journals(_, _)
rollback_journals(w, i) ==
    IF i > Len(w.jp.order) THEN w
    ELSE rollback_journals(perform_rollback(w, w.jp.order[i]), i + 1)

\* _recover, lines 38-43: every journal of the directory.  The journals are
\* of different data files, so the order of os.listdir does not matter.
RECURSIVE recover_journals(_, _)
recover_journals(w, todo) ==
    IF todo = {} THEN w
    ELSE LET f == CHOOSE g \in todo : TRUE
         IN recover_journals(perform_rollback(w, f), todo \ {f})

(***************************************************************************)
(* The execution engine's commands.  A WHERE clause is NoWhere or one      *)
(* equality condition, on the primary key [col |-> "id", val |-> k] or on  *)
(* the other column [col |-> "v", val |-> x].                              *)
(***************************************************************************)
NoWhere == [col |-> "none", val |-> NULL]
WhereId(k) == [col |-> "id", val |-> k]
WhereV(x) == [col |-> "v", val |-> x]

\* _evaluate_where_clause, lines 239-269, for one '=' condition: a None in
\* the record's column never matches.  Only id can be None.
Matches(record, where) ==
    CASE where.col = "id" -> record.id # NULL /\ record.id = where.val
      [] where.col = "v" -> record.v = where.val
      [] OTHER -> TRUE

\* _full_scan_with_filter(None, where_clause, records_to_filter=records)
Filter(records, where) == SelectSeq(records, LAMBDA r : Matches(r, where))

\* Lines 138-143 of _execute_select for a condition on a column that is not
\* the primary key: no index matches, so every record of the table is
\* fetched and filtered.
scan_with_filter(w, f, where) ==
    IF ~Ok(w) THEN w
    ELSE LET r == btree_get_all(w.files[f])
         IN IF r.err # "ok" THEN Raise(w, r.err) ELSE [w EXCEPT !.ret = Filter(r.val, where)]

\* _execute_select for a wildcard SELECT on one table, lines 104-143, inside a
\* transaction (no lock is taken): the rows in w.ret.
execute_select(w, f, where) ==
    IF ~Ok(w) THEN w
    ELSE IF where.col = "v"
    THEN LET w1 == get_table_metadata(w, f)
         IN IF w1.err = "FileNotFoundError" THEN Raise(w, "ValueError")
            ELSE scan_with_filter(Subscript(w1), f, where)
    ELSE IF where # NoWhere
    THEN LET w1 == get_table_metadata(w, f)
         IN IF w1.err = "FileNotFoundError" THEN Raise(w, "ValueError")
            ELSE IF ~Ok(Subscript(w1)) THEN Subscript(w1)
            ELSE LET r == btree_search(w.files[f], where.val)
                 IN IF r.err # "ok" THEN Raise(w, r.err)
                    ELSE [w EXCEPT !.ret = IF r.val # ZeroPage /\ r.val.id = where.val
                                             THEN <<r.val>> ELSE <<>>]
    ELSE LET r == btree_get_all(w.files[f])
         IN IF r.err # "ok" THEN Raise(w, r.err) ELSE [w EXCEPT !.ret = r.val]

\* f"{len(records)} row(s) updated." and f"{len(records)} row(s) deleted.":
\* the count the statement reports; 0 when no record was found.
Counted(w, n) == IF Ok(w) THEN [w EXCEPT !.count = n] ELSE w

\* The loop of _execute_update, lines 81-83.
RECURSIVE update_each(_, _, _, _, _)
update_each(w, f, records, i, set) ==
    IF i > Len(records) \/ ~Ok(w) THEN w
    ELSE update_each(update_record(w, f, records[i].id, set), f, records, i + 1, set)

\* _execute_update, lines 74-84
update_found(w, cmd) ==
    IF ~Ok(w) \/ w.ret = <<>> THEN w
    ELSE Counted(update_each(Subscript(get_table_metadata(w, cmd.table)), cmd.table,
                             w.ret, 1, cmd.set),
                 Len(w.ret))

execute_update(w, cmd) == update_found(execute_select(w, cmd.table, cmd.where), cmd)

\* The loop of _execute_delete, lines 95-97.
RECURSIVE delete_each(_, _, _, _)
delete_each(w, f, records, i) ==
    IF i > Len(records) \/ ~Ok(w) THEN w
    ELSE delete_each(delete_record(w, f, records[i].id), f, records, i + 1)

\* _execute_delete, lines 86-98
delete_found(w, cmd) ==
    IF ~Ok(w) \/ w.ret = <<>> THEN w
    ELSE Counted(delete_each(Subscript(get_table_metadata(w, cmd.table)), cmd.table, w.ret, 1),
                 Len(w.ret))

\* An _execute_delete without the check of lines 88-89: no WHERE clause
\* selects every row.
execute_delete_all(w, cmd) ==
    delete_found(execute_select(w, cmd.table, cmd.where), cmd)

execute_delete(w, cmd) ==
    IF cmd.where = NoWhere THEN Raise(w, "ValueError")
    ELSE delete_found(execute_select(w, cmd.table, cmd.where), cmd)

\* _execute_insert, lines 288-300; the values always match the schema's arity.
execute_insert(w, cmd) ==
    LET w1 == get_table_metadata(w, cmd.table)
    IN IF w1.err = "FileNotFoundError" THEN Raise(w, "ValueError")
       ELSE insert_record(Subscript(w1), cmd.table, cmd.record)

\* _dispatch_command, lines 36-51.  StorageEngine defines no create_index, so
\* _execute_create_index raises AttributeError (line 273).
dispatch_command(w, cmd) ==
    CASE cmd.type = "UPDATE" -> execute_update(w, cmd)
      [] cmd.type = "DELETE" -> execute_delete(w, cmd)
      [] cmd.type = "CREATE_INDEX" -> Raise(w, "AttributeError")
      [] cmd.type = "CREATE_TABLE" -> create_table(w, cmd.table)
      [] cmd.type = "INSERT" -> execute_insert(w, cmd)
      [] OTHER -> Raise(w, "ValueError")

(***************************************************************************)
(* SELECT and WITH on rows.  A row is a Python dict: its items in          *)
(* insertion order, each a key and a value.  A key is a column name, or    *)
(* f"{table}.{name}" in the rows of a join; None is NULL.  A result is     *)
(* [err, val]: the exception raised ("ok" when none) and the rows.         *)
(***************************************************************************)
Col(table, name) == [table |-> table, name |-> name]
Item(key, val) == [key |-> key, val |-> val]

\* The dict a record is stored as: dict(zip(column_names, values)), line 298.
Row(record) == <<Item(Col("", "id"), record.id), Item(Col("", "v"), record.v)>>

\* key in row, row.get(key), row[key] = val, row.update(other)
HasKey(row, key) == \E i \in 1..Len(row) : row[i].key = key
DictGet(row, key) ==
    IF HasKey(row, key) THEN row[CHOOSE i \in 1..Len(row) : row[i].key = key].val ELSE NULL
DictSet(row, key, val) ==
    IF HasKey(row, key)
    THEN [i \in 1..Len(row) |-> IF row[i].key = key THEN Item(key, val) ELSE row[i]]
    ELSE Append(row, Item(key, val))
RECURSIVE DictUpdate(_, _, _)
DictUpdate(row, other, i) ==
    IF i > Len(other) THEN row
    ELSE DictUpdate(DictSet(row, other[i].key, other[i].val), other, i + 1)

\* A WHERE clause: None, a condition, or an AND or OR of conditions
\* ([type |-> "AND", conditions |-> <<...>>]).
NoClause == [type |-> "none"]
Condition(column, operator, value) ==
    [type |-> "condition", column |-> column, operator |-> operator, value |-> value]

\* _evaluate_where_clause, lines 239-269.  A condition reads the item under
\* the exact key, or else the first item whose key ends with "." and the
\* column; it is false when there is none or its value is None.
RECURSIVE evaluate_where_clause(_, _)
evaluate_where_clause(record, clause) ==
    LET EndsWith(key) ==
            key.table # "" /\ clause.column.table = "" /\ key.name = clause.column.name
        Compare(a, b) ==
            CASE clause.operator = "=" -> a = b
              [] clause.operator = "!=" -> a # b
              [] clause.operator = "<" -> a < b
              [] clause.operator = "<=" -> a <= b
              [] clause.operator = ">" -> a > b
              [] clause.operator = ">=" -> a >= b
              [] OTHER -> FALSE
        Holds(i) == record[i].val # NULL /\ Compare(record[i].val, clause.value)
    IN CASE clause.type = "OR" ->
               \E i \in 1..Len(clause.conditions) :
                   evaluate_where_clause(record, clause.conditions[i])
         [] clause.type = "AND" ->
               \A i \in 1..Len(clause.conditions) :
                   evaluate_where_clause(record, clause.conditions[i])
         [] clause.type = "condition" ->
               IF HasKey(record, clause.column)
               THEN \E i \in 1..Len(record) : record[i].key = clause.column /\ Holds(i)
               ELSE \E i \in 1..Len(record) :
                       /\ EndsWith(record[i].key)
                       /\ \A j \in 1..(i - 1) : ~EndsWith(record[j].key)
                       /\ Holds(i)
         [] OTHER -> FALSE

\* _full_scan_with_filter(None, where_clause, records_to_filter=records),
\* lines 217-218 and 231-237.
filter_records(records, where_clause) ==
    IF where_clause = NoClause THEN records
    ELSE SelectSeq(records, LAMBDA record : evaluate_where_clause(record, where_clause))

\* _full_scan_with_filter(table_name, None, data_context), lines 219-232.
\* get_all_records is a generator: it raises when list() consumes it (line
\* 232), outside the try of lines 223-226.
full_scan(fs, table_name, data_context) ==
    LET AllRows(scan) ==
            IF scan.err # "ok" THEN [err |-> scan.err, val |-> <<>>]
            ELSE [err |-> "ok", val |-> [i \in 1..Len(scan.val) |-> Row(scan.val[i])]]
    IN IF table_name \in DOMAIN data_context
       THEN [err |-> "ok", val |-> data_context[table_name]]
       ELSE AllRows(btree_get_all(IF table_name \in DOMAIN fs THEN fs[table_name] ELSE <<>>))

\* self.storage_engine.get_table_metadata(name)['schema'] (and
\* ['primary_key']): the exception it raises, "ok" when none.
SchemaError(fs, name) ==
    IF name \notin DOMAIN fs THEN "FileNotFoundError"
    ELSE IF fs[name] = <<>> THEN "FileNotFoundError"
    ELSE IF read_page(fs[name], 0) = GarbagePage THEN "UnpicklingError"
    ELSE IF read_page(fs[name], 0).kind # "meta" THEN "TypeError"
    ELSE "ok"

\* Lines 177-180 and 184-185: new_row[f"{table_name}.{col}"] = val for the
\* items of `row` from the i-th on.  The rows of a stored table have plain
\* column names.
RECURSIVE Qualified(_, _, _, _)
Qualified(new_row, table_name, row, i) ==
    IF i > Len(row) THEN new_row
    ELSE Qualified(DictSet(new_row, Col(table_name, row[i].key.name), row[i].val),
                   table_name, row, i + 1)

\* A loop of lines 171-187 that takes every left row of a LEFT join for
\* unmatched.
join_row_unmatched(l_row, matches, join) ==
    [j \in 1..Len(matches) |->
        Qualified(Qualified(<<>>, join.left.name, l_row, 1), join.right.name, matches[j], 1)]
    \o (IF join.join_type = "LEFT"
        THEN <<DictUpdate(Qualified(<<>>, join.left.name, l_row, 1),
                          Qualified(<<>>, join.right.name, Row(Record(NULL, NULL)), 1), 1)>>
        ELSE <<>>)

\* One round of the loop of lines 171-187: the rows appended for l_row, given
\* the right rows that match it.  null_right_row (line 170) has the columns
\* of the schema, id and v.
join_row(l_row, matches, join) ==
    IF matches = <<>>
    THEN (IF join.join_type = "LEFT"
          THEN <<DictUpdate(Qualified(<<>>, join.left.name, l_row, 1),
                            Qualified(<<>>, join.right.name, Row(Record(NULL, NULL)), 1), 1)>>
          ELSE <<>>)
    ELSE [j \in 1..Len(matches) |->
             Qualified(Qualified(<<>>, join.left.name, l_row, 1), join.right.name, matches[j], 1)]

\* _execute_join, lines 164-188
execute_join(fs, join, data_context) ==
    LET Matches_(l_row, right_records) ==
            SelectSeq(right_records,
                      LAMBDA r_row : DictGet(l_row, Col("", join.on.left_column))
                                     = DictGet(r_row, Col("", join.on.right_column)))
        Joined(left, right) ==
            IF left.err # "ok" THEN left
            ELSE IF right.err # "ok" THEN right
            ELSE IF SchemaError(fs, join.right.name) # "ok"
            THEN [err |-> SchemaError(fs, join.right.name), val |-> <<>>]
            ELSE [err |-> "ok",
                  val |-> Flatten([i \in 1..Len(left.val) |->
                                      join_row(left.val[i], Matches_(left.val[i], right.val),
                                               join)])]
    IN Joined(full_scan(fs, join.left.name, data_context),
              full_scan(fs, join.right.name, data_context))

\* The aggregates of a SELECT list; the alias is the source text.
Aggregate(function, argument, alias) ==
    [type |-> "aggregate", function |-> function, argument |-> argument, alias |-> alias]
Wildcard == <<[type |-> "wildcard"]>>

RECURSIVE SumOf(_)
SumOf(values) == IF values = <<>> THEN 0 ELSE Head(values) + SumOf(Tail(values))

\* _perform_aggregation, lines 319-340: one row, an item per aggregate (the
\* aliases of a SELECT list differ).  Every value of the model is an int or
\* None; sum(values) / len(values) is kept as the fraction.
perform_aggregation(aggregates, records) ==
    LET Values(arg) ==
            LET having == SelectSeq(records, LAMBDA r : DictGet(r, Col("", arg)) # NULL)
            IN [i \in 1..Len(having) |-> DictGet(having[i], Col("", arg))]
        Reduced(function, values) ==
            CASE values = <<>> -> NULL
              [] function = "SUM" -> SumOf(values)
              [] function = "AVG" -> [num |-> SumOf(values), den |-> Len(values)]
              [] function = "MIN" ->
                    CHOOSE x \in {values[i] : i \in 1..Len(values)} :
                        \A i \in 1..Len(values) : x <= values[i]
              [] function = "MAX" ->
                    CHOOSE x \in {values[i] : i \in 1..Len(values)} :
                        \A i \in 1..Len(values) : x >= values[i]
              [] OTHER -> NULL
        Value(agg) ==
            IF agg.function = "COUNT"
            THEN (IF agg.argument = "*" THEN Len(records) ELSE Len(Values(agg.argument)))
            ELSE Reduced(agg.function, Values(agg.argument))
    IN IF records = <<>> /\ \E i \in 1..Len(aggregates) : aggregates[i].function # "COUNT"
       THEN <<[i \in 1..Len(aggregates) |-> Item(Col("", aggregates[i].alias), NULL)]>>
       ELSE <<[i \in 1..Len(aggregates) |->
                  Item(Col("", aggregates[i].alias), Value(aggregates[i]))]>>

\* The command trees: a SELECT without GROUP BY and ORDER BY whose list is *
\* or aggregates, on a table or a join, and a WITH of one CTE.
Join(join_type, left, right, left_column, right_column) ==
    [type |-> "join", join_type |-> join_type,
     left |-> [type |-> "table", name |-> left], right |-> [type |-> "table", name |-> right],
     on |-> [left_column |-> left_column, right_column |-> right_column]]
Select(columns, from, where) ==
    [type |-> "SELECT", columns |-> columns, from |-> from, where |-> where]
With(name, query, main_query) ==
    [type |-> "WITH", ctes |-> <<[name |-> name, query |-> query]>>, main_query |-> main_query]

\* Lines 107-142: initial_records.  The SELECT on a table whose WHERE is a
\* condition with '=', or an AND that starts with one, asks the storage
\* engine for the table's metadata first; metadata['indexes'] is empty, so
\* only a condition on the primary key is answered by search_pk, and
\* index_used stays False otherwise.
initial_records(fs, command, data_context) ==
    LET index_check_condition ==
            IF command.where.type = "condition" THEN command.where
            ELSE command.where.conditions[1]
        Probed(found) ==
            IF found.err # "ok" THEN [err |-> found.err, val |-> <<>>]
            ELSE IF found.val = ZeroPage THEN [err |-> "ok", val |-> <<>>]
            ELSE [err |-> "ok", val |-> <<Row(found.val)>>]
    IN IF /\ command.where # NoClause
          /\ command.from.type = "table"
          /\ command.where.type # "OR"
          /\ index_check_condition.operator = "="
       THEN IF SchemaError(fs, command.from.name) = "FileNotFoundError"
            THEN [err |-> "ValueError", val |-> <<>>]
            ELSE IF SchemaError(fs, command.from.name) # "ok"
            THEN [err |-> SchemaError(fs, command.from.name), val |-> <<>>]
            ELSE IF index_check_condition.column = Col("", "id")
            THEN Probed(btree_search(fs[command.from.name], index_check_condition.value))
            ELSE full_scan(fs, command.from.name, data_context)
       ELSE IF command.from.type = "join" THEN execute_join(fs, command.from, data_context)
       ELSE full_scan(fs, command.from.name, data_context)

\* _execute_select, lines 104-162: initial_records, the filter of line 143,
\* then the aggregates; a wildcard list returns the records as they are.
select_rows(fs, command, data_context) ==
    LET Results(initial) ==
            IF initial.err # "ok" THEN initial
            ELSE IF \E i \in 1..Len(command.columns) : command.columns[i].type = "aggregate"
            THEN [err |-> "ok",
                  val |-> perform_aggregation(command.columns,
                                              filter_records(initial.val, command.where))]
            ELSE [err |-> "ok", val |-> filter_records(initial.val, command.where)]
    IN Results(initial_records(fs, command, data_context))

\* _execute_with, lines 276-281, from the i-th CTE on; data_context is a
\* function from names to rows.
RECURSIVE execute_with(_, _, _, _)
execute_with(fs, command, data_context, i) ==
    LET Bound(cte_result) ==
            IF cte_result.err # "ok" THEN cte_result
            ELSE execute_with(fs, command,
                              [n \in DOMAIN data_context \cup {command.ctes[i].name} |->
                                  IF n = command.ctes[i].name THEN cte_result.val
                                  ELSE data_context[n]],
                              i + 1)
    IN IF i > Len(command.ctes) THEN select_rows(fs, command.main_query, data_context)
       ELSE Bound(select_rows(fs, command.ctes[i].query, data_context))

\* execute and _dispatch_command for SELECT and WITH, lines 13-15, 33-34 and
\* 36-51, with data_context = {}.
execute_query(fs, command) ==
    IF command.type = "WITH" THEN execute_with(fs, command, [n \in {} |-> <<>>], 1)
    ELSE select_rows(fs, command, [n \in {} |-> <<>>])

(***************************************************************************)
(* The state: one directory, and in each process one StorageEngine with    *)
(* its Locker and the ExecutionEngine on top of it.                        *)
(***************************************************************************)
VARIABLES
    files,                \* data file -> its pages, <<>> when the file does not exist
    jrnl,                 \* data file -> the entries of its -journal file, <<>> when none
    lock,                 \* process -> the flock its Locker holds on .db_lock
    st,                   \* process -> "down" (no engine), "up", "hung" (a call never returns)
    transaction_active,   \* StorageEngine.transaction_active
    journaled_pages,      \* StorageEngine.journaled_pages
    in_transaction,       \* ExecutionEngine.in_transaction
    sel,                  \* process -> where its SELECT outside a transaction stands
    pre,                  \* process -> the data files when its open transaction began
    crashed,              \* the data files when the transaction of a process that died began
    last                  \* the last step taken: process, operation, outcome

vars == <<files, jrnl, lock, st, transaction_active, journaled_pages, in_transaction,
          sel, pre, crashed, last>>

NoFiles == [f \in Tables |-> <<>>]
NoSel == [stage |-> "none", table |-> "t", key |-> NULL]
NoCrash == [valid |-> FALSE, files |-> NoFiles]
Event(p, op, err) == [p |-> p, op |-> op, err |-> err]

\* The commands offered to execute().
Insert(f, k) == [type |-> "INSERT", table |-> f, record |-> Record(k, 0),
                 where |-> NoWhere, set |-> [col |-> "v", val |-> 0]]
Update(f, k, col, val) == [type |-> "UPDATE", table |-> f, record |-> Record(NULL, 0),
                           where |-> IF k = NULL THEN NoWhere ELSE WhereId(k),
                           set |-> [col |-> col, val |-> val]]
Delete(f, k) == [type |-> "DELETE", table |-> f, record |-> Record(NULL, 0),
                 where |-> IF k = NULL THEN NoWhere ELSE WhereId(k),
                 set |-> [col |-> "v", val |-> 0]]
CreateTable(f) == [type |-> "CREATE_TABLE", table |-> f, record |-> Record(NULL, 0),
                   where |-> NoWhere, set |-> [col |-> "v", val |-> 0]]
CreateIndex(f) == [type |-> "CREATE_INDEX", table |-> f, record |-> Record(NULL, 0),
                   where |-> NoWhere, set |-> [col |-> "v", val |-> 0]]

RECURSIVE StoredRows(_)
StoredRows(pages) ==
    IF pages = <<>> THEN 0
    ELSE (IF Head(pages).kind = "node" THEN Len(Head(pages).values) ELSE 0)
         + StoredRows(Tail(pages))

WriteCommands ==
    {Insert("t", k) : k \in Keys \cup {NULL}}
    \cup {Update("t", k, "v", 0) : k \in Keys \cup {NULL}}
    \cup {Update("t", k, "id", NULL) : k \in Keys}
    \cup {Delete("t", k) : k \in Keys \cup {NULL}}
    \cup {CreateTable("t"), CreateIndex("t")}

Offered(cmd) ==
    cmd.type = "INSERT" => StoredRows(files[cmd.table]) < MaxRows

Init ==
    /\ files = [f \in Tables |-> IF f = "t" THEN <<Metadata(1, 2), BTreeNode(TRUE)>> ELSE <<>>]
    /\ jrnl = [f \in Tables |-> <<>>]
    /\ lock = [p \in Procs |-> "none"]
    /\ st = [p \in Procs |-> "down"]
    /\ transaction_active = [p \in Procs |-> FALSE]
    /\ journaled_pages = [p \in Procs |-> NoJournaled]
    /\ in_transaction = [p \in Procs |-> FALSE]
    /\ sel = [p \in Procs |-> NoSel]
    /\ pre = [p \in Procs |-> NoFiles]
    /\ crashed = NoCrash
    /\ last = Event(1, "INIT", "ok")

\* A Locker that asks for LOCK_SH whatever `exclusive` says.
CanLockShared(p, exclusive) ==
    \A q \in Procs \ {p} : lock[q] # "exclusive"

(***************************************************************************)
(* Locker.lock, lines 19-53: flock(LOCK_EX | LOCK_NB) succeeds when no     *)
(* other open file description holds a lock, flock(LOCK_SH | LOCK_NB) when *)
(* none holds an exclusive one.  While it fails the call sleeps and        *)
(* retries, and after `timeout` seconds it raises TimeoutError.            *)
(***************************************************************************)
CanLock(p, exclusive) ==
    \A q \in Procs \ {p} :
        IF exclusive THEN lock[q] = "none" ELSE lock[q] # "exclusive"

Idle(p) == st[p] = "up" /\ sel[p] = NoSel

\* What a step that changes the directory does to the ghost of a dead
\* transaction: the claim about it is about the next engine opened.
Forget == crashed' = NoCrash

(***************************************************************************)
(* StorageEngine.__init__ and _recover, lines 17-45.                       *)
(***************************************************************************)
Opened(p, w) ==
    /\ files' = w.files
    /\ jrnl' = w.jrnl
    /\ st' = [st EXCEPT ![p] = IF Ok(w) THEN "up" ELSE "down"]
    /\ last' = [p |-> p, op |-> "OPEN", err |-> w.err, replayed |-> w.trace # <<>>]

\* A _recover that replays the journals without taking the lock.
OpenUnlocked(p) ==
    /\ st[p] = "down"
    /\ Opened(p, recover_journals(World(files, jrnl, FALSE, NoJournaled),
                                  {f \in Tables : jrnl[f] # <<>>}))
    /\ Forget
    /\ UNCHANGED <<lock, transaction_active, journaled_pages, in_transaction, sel, pre>>

Open(p) ==
    /\ st[p] = "down"
    /\ CanLock(p, TRUE)
    /\ Opened(p, recover_journals(World(files, jrnl, FALSE, NoJournaled),
                                  {f \in Tables : jrnl[f] # <<>>}))
    /\ Forget
    /\ UNCHANGED <<lock, transaction_active, journaled_pages, in_transaction, sel, pre>>

\* The lock is not obtained within the timeout: nothing was done.
Timeout(p, op, exclusive) ==
    /\ ~CanLock(p, exclusive)
    /\ last' = Event(p, op, "TimeoutError")
    /\ UNCHANGED <<files, jrnl, lock, st, transaction_active, journaled_pages,
                   in_transaction, sel, pre, crashed>>

OpenTimeout(p) == st[p] = "down" /\ Timeout(p, "OPEN", TRUE)

\* A begin_transaction that sets the flags without taking the lock.
BeginUnlocked(p) ==
    /\ Idle(p) /\ ~in_transaction[p]
    /\ transaction_active' = [transaction_active EXCEPT ![p] = TRUE]
    /\ journaled_pages' = [journaled_pages EXCEPT ![p] = NoJournaled]
    /\ in_transaction' = [in_transaction EXCEPT ![p] = TRUE]
    /\ pre' = [pre EXCEPT ![p] = files]
    /\ last' = Event(p, "BEGIN", "ok")
    /\ Forget
    /\ UNCHANGED <<files, jrnl, lock, st, sel>>

\* An engine without the in_transaction checks: commit_transaction and
\* rollback_transaction return at once when no transaction is active, and the
\* command reports success.
StateErrorSilent(p, op) ==
    /\ Idle(p)
    /\ in_transaction[p] <=> op = "BEGIN"
    /\ last' = Event(p, op, "ok")
    /\ UNCHANGED <<files, jrnl, lock, st, transaction_active, journaled_pages,
                   in_transaction, sel, pre, crashed>>

(***************************************************************************)
(* BEGIN, COMMIT, ROLLBACK: execution_engine.py lines 53-72 on             *)
(* storage_engine.py lines 47-73.                                          *)
(***************************************************************************)
Begin(p) ==
    /\ Idle(p) /\ ~in_transaction[p]
    /\ CanLock(p, TRUE)
    /\ lock' = [lock EXCEPT ![p] = "exclusive"]
    /\ transaction_active' = [transaction_active EXCEPT ![p] = TRUE]
    /\ journaled_pages' = [journaled_pages EXCEPT ![p] = NoJournaled]
    /\ in_transaction' = [in_transaction EXCEPT ![p] = TRUE]
    /\ pre' = [pre EXCEPT ![p] = files]
    /\ last' = Event(p, "BEGIN", "ok")
    /\ Forget
    /\ UNCHANGED <<files, jrnl, st, sel>>

\* A begin_transaction that sets transaction_active before it asks for the lock.
BeginTimeoutActive(p) ==
    /\ Idle(p) /\ ~in_transaction[p]
    /\ ~CanLock(p, TRUE)
    /\ transaction_active' = [transaction_active EXCEPT ![p] = TRUE]
    /\ last' = Event(p, "BEGIN", "TimeoutError")
    /\ UNCHANGED <<files, jrnl, lock, st, journaled_pages, in_transaction, sel, pre, crashed>>

BeginTimeout(p) == Idle(p) /\ ~in_transaction[p] /\ Timeout(p, "BEGIN", TRUE)

\* "Transaction already in progress.", "No transaction to commit.",
\* "No transaction to roll back."
StateError(p, op) ==
    /\ Idle(p)
    /\ in_transaction[p] <=> op = "BEGIN"
    /\ last' = Event(p, op, "ValueError")
    /\ UNCHANGED <<files, jrnl, lock, st, transaction_active, journaled_pages,
                   in_transaction, sel, pre, crashed>>

\* The engine's state after commit_transaction or rollback_transaction.
EndTransaction(p, w) ==
    /\ files' = w.files
    /\ jrnl' = w.jrnl
    /\ IF Ok(w)
       THEN /\ lock' = [lock EXCEPT ![p] = "none"]
            /\ transaction_active' = [transaction_active EXCEPT ![p] = FALSE]
            /\ journaled_pages' = [journaled_pages EXCEPT ![p] = NoJournaled]
            /\ in_transaction' = [in_transaction EXCEPT ![p] = FALSE]
            /\ pre' = [pre EXCEPT ![p] = NoFiles]
       ELSE /\ lock' = [lock EXCEPT ![p] = "exclusive"]
            /\ transaction_active' = [transaction_active EXCEPT ![p] = TRUE]
            /\ journaled_pages' = [journaled_pages EXCEPT ![p] = w.jp]
            /\ in_transaction' = [in_transaction EXCEPT ![p] = TRUE]
            /\ pre' = [pre EXCEPT ![p] = IF pre[p] = NoFiles THEN files ELSE @]

Ended(p, op, w) == EndTransaction(p, w) /\ last' = Event(p, op, w.err)

Commit(p) ==
    /\ Idle(p) /\ in_transaction[p]
    /\ Ended(p, "COMMIT", commit_journals(World(files, jrnl, TRUE, journaled_pages[p]), 1))
    /\ Forget
    /\ UNCHANGED <<st, sel>>

Rollback(p) ==
    /\ Idle(p) /\ in_transaction[p]
    /\ Ended(p, "ROLLBACK", rollback_journals(World(files, jrnl, TRUE, journaled_pages[p]), 1))
    /\ Forget
    /\ UNCHANGED <<st, sel>>

(***************************************************************************)
(* execute, lines 13-34, for a write command.                              *)
(***************************************************************************)
\* Inside an explicit transaction: the command runs as it is (line 34).
Written(p, w) ==
    /\ files' = w.files
    /\ jrnl' = w.jrnl
    /\ journaled_pages' = [journaled_pages EXCEPT ![p] = w.jp]
    /\ st' = [st EXCEPT ![p] = IF w.err = "hang" THEN "hung" ELSE @]
    /\ last' = Event(p, "WRITE", w.err)

Write(p, cmd) ==
    /\ Idle(p) /\ in_transaction[p] /\ Offered(cmd)
    /\ Written(p, dispatch_command(World(files, jrnl, TRUE, journaled_pages[p]), cmd))
    /\ Forget
    /\ UNCHANGED <<lock, transaction_active, in_transaction, sel, pre>>

\* An execute() whose except branch raises again without the rollback.
ImplicitCloseNoRollback(w) ==
    IF w.err = "hang" THEN w
    ELSE IF Ok(w) THEN [commit_journals(w, 1) EXCEPT !.ret = "ok"]
    ELSE [w EXCEPT !.ret = w.err]

\* The implicit transaction, lines 24-32: the command, then COMMIT, or
\* ROLLBACK when the command raised, and the command's error raised again.
\* The command's outcome is kept in w.ret.
ImplicitClose(w) ==
    IF w.err = "hang" THEN w
    ELSE IF Ok(w) THEN [commit_journals(w, 1) EXCEPT !.ret = "ok"]
    ELSE [rollback_journals([w EXCEPT !.err = "ok"], 1) EXCEPT !.ret = w.err]

ImplicitDone(p, w) ==
    /\ EndTransaction(p, w)
    /\ st' = [st EXCEPT ![p] = IF w.err = "hang" THEN "hung" ELSE @]
    /\ last' = Event(p, "IMPLICIT", IF Ok(w) THEN w.ret ELSE w.err)

Implicit(p, cmd) ==
    /\ Idle(p) /\ ~in_transaction[p] /\ Offered(cmd)
    /\ CanLock(p, TRUE)
    /\ ImplicitDone(p, ImplicitClose(dispatch_command(World(files, jrnl, TRUE, NoJournaled),
                                                     cmd)))
    /\ Forget
    /\ UNCHANGED sel

ImplicitTimeout(p) == Idle(p) /\ ~in_transaction[p] /\ Timeout(p, "IMPLICIT", TRUE)

(***************************************************************************)
(* execute for a SELECT, lines 33-34 and 104-143.  Inside a transaction    *)
(* no lock is taken.  Outside one, get_table_metadata (lines 146-157) and  *)
(* get_all_records (lines 298-305) take the shared lock for the length of  *)
(* the call; search_pk (lines 292-293) takes none.                         *)
(***************************************************************************)
Selected(p, op, r) ==
    /\ st' = [st EXCEPT ![p] = IF r.err = "hang" THEN "hung" ELSE @]
    /\ last' = Event(p, op, r.err)

SelectInTransaction(p, f, where) ==
    /\ Idle(p) /\ in_transaction[p]
    /\ Selected(p, "SELECT",
                execute_select(World(files, jrnl, TRUE, journaled_pages[p]), f, where))
    /\ UNCHANGED <<files, jrnl, lock, transaction_active, journaled_pages,
                   in_transaction, sel, pre, crashed>>

\* Locker.lock(exclusive=False) of get_table_metadata (where on the primary
\* key) or of get_all_records (no where).
ReadLock(p, f, key) ==
    /\ Idle(p) /\ ~in_transaction[p]
    /\ CanLock(p, FALSE)
    /\ lock' = [lock EXCEPT ![p] = "shared"]
    /\ sel' = [sel EXCEPT ![p] = [stage |-> IF key = NULL THEN "scan" ELSE "meta",
                                  table |-> f, key |-> key]]
    /\ last' = Event(p, "READ_LOCK", "ok")
    /\ UNCHANGED <<files, jrnl, st, transaction_active, journaled_pages,
                   in_transaction, pre, crashed>>

ReadTimeout(p) == Idle(p) /\ ~in_transaction[p] /\ Timeout(p, "READ_LOCK", FALSE)

\* A get_table_metadata that unlocks after its return statement only: the
\* lock stays when the table does not exist.
ReadMetaNoFinally(p) ==
    /\ st[p] = "up" /\ sel[p].stage = "meta"
    /\ sel' = [sel EXCEPT ![p] = IF files[sel[p].table] # <<>>
                                  THEN [@ EXCEPT !.stage = "probe"] ELSE NoSel]
    /\ last' = Event(p, "READ_META", IF files[sel[p].table] # <<>> THEN "ok" ELSE "ValueError")
    /\ lock' = [lock EXCEPT ![p] = IF files[sel[p].table] # <<>> THEN "none" ELSE @]
    /\ UNCHANGED <<files, jrnl, st, transaction_active, journaled_pages,
                   in_transaction, pre, crashed>>

\* get_table_metadata reads page 0 and unlocks; _execute_select goes on to
\* search_pk when the metadata is there.
MetaRead(p, w) ==
    /\ sel' = [sel EXCEPT ![p] = IF Ok(w) THEN [@ EXCEPT !.stage = "probe"] ELSE NoSel]
    /\ last' = Event(p, "READ_META", IF w.err = "FileNotFoundError" THEN "ValueError" ELSE w.err)

ReadMeta(p) ==
    /\ st[p] = "up" /\ sel[p].stage = "meta"
    /\ MetaRead(p, Subscript(get_table_metadata(World(files, jrnl, FALSE, NoJournaled),
                                                sel[p].table)))
    /\ lock' = [lock EXCEPT ![p] = "none"]
    /\ UNCHANGED <<files, jrnl, st, transaction_active, journaled_pages,
                   in_transaction, pre, crashed>>

\* search_pk: _btree_search on the file as it is now, no lock held.
ReadProbe(p) ==
    /\ st[p] = "up" /\ sel[p].stage = "probe"
    /\ Selected(p, "READ_PROBE", btree_search(files[sel[p].table], sel[p].key))
    /\ sel' = [sel EXCEPT ![p] = NoSel]
    /\ UNCHANGED <<files, jrnl, lock, transaction_active, journaled_pages,
                   in_transaction, pre, crashed>>

\* get_all_records: the whole walk under the shared lock, then unlock.  A
\* walk that never returns keeps the lock.
Scanned(p, r) ==
    /\ Selected(p, "READ_SCAN", r)
    /\ lock' = [lock EXCEPT ![p] = IF r.err = "hang" THEN @ ELSE "none"]

ReadScan(p) ==
    /\ st[p] = "up" /\ sel[p].stage = "scan"
    /\ Scanned(p, IF files[sel[p].table] = <<>>
                  THEN [err |-> "FileNotFoundError", val |-> <<>>]
                  ELSE btree_get_all(files[sel[p].table]))
    /\ sel' = [sel EXCEPT ![p] = NoSel]
    /\ UNCHANGED <<files, jrnl, transaction_active, journaled_pages,
                   in_transaction, pre, crashed>>

(***************************************************************************)
(* The process dies: its engine and its flock are gone, the directory      *)
(* stays as it is.                                                         *)
(***************************************************************************)
Die(p, open) ==
    /\ st' = [st EXCEPT ![p] = "down"]
    /\ lock' = [lock EXCEPT ![p] = "none"]
    /\ transaction_active' = [transaction_active EXCEPT ![p] = FALSE]
    /\ journaled_pages' = [journaled_pages EXCEPT ![p] = NoJournaled]
    /\ in_transaction' = [in_transaction EXCEPT ![p] = FALSE]
    /\ sel' = [sel EXCEPT ![p] = NoSel]
    /\ pre' = [pre EXCEPT ![p] = NoFiles]
    /\ crashed' = IF open THEN [valid |-> TRUE, files |-> pre[p]] ELSE crashed

Crash(p) ==
    /\ st[p] # "down"
    /\ Die(p, transaction_active[p])
    /\ last' = Event(p, "CRASH", "ok")
    /\ UNCHANGED <<files, jrnl>>

\* The process dies inside a write command of its explicit transaction,
\* after the k-th write to the file system.
CrashPoints(w) == {w.trace[k] : k \in 1..(Len(w.trace) - 1)}

CrashInWrite(p, cmd) ==
    /\ Idle(p) /\ in_transaction[p] /\ Offered(cmd)
    /\ \E d \in CrashPoints(dispatch_command(World(files, jrnl, TRUE, journaled_pages[p]), cmd)) :
          /\ files' = d.files
          /\ jrnl' = d.jrnl
    /\ Die(p, TRUE)
    /\ last' = Event(p, "CRASH_IN_WRITE", "ok")

Next ==
    \E p \in Procs :
        \/ Open(p)
        \/ OpenTimeout(p)
        \/ Begin(p)
        \/ BeginTimeout(p)
        \/ \E op \in {"BEGIN", "COMMIT", "ROLLBACK"} : StateError(p, op)
        \/ Commit(p)
        \/ Rollback(p)
        \/ \E cmd \in WriteCommands : Write(p, cmd)
        \/ \E cmd \in WriteCommands : Implicit(p, cmd)
        \/ ImplicitTimeout(p)
        \/ \E k \in Keys \cup {NULL} :
              SelectInTransaction(p, "t", IF k = NULL THEN NoWhere ELSE WhereId(k))
        \/ \E k \in Keys \cup {NULL} : ReadLock(p, "t", k)
        \/ ReadTimeout(p)
        \/ ReadMeta(p)
        \/ ReadProbe(p)
        \/ ReadScan(p)
        \/ Crash(p)
        \/ \E cmd \in WriteCommands : CrashInWrite(p, cmd)

Spec == Init /\ [][Next]_vars

(***************************************************************************)
(* The statements of one client, one after the other, each outside a       *)
(* transaction: execute() lines 23-32 as in Implicit, with more keys and   *)
(* with column values that tell the rows apart.  The last step records the *)
(* statement and the number of rows it reported.                           *)
(***************************************************************************)
TableKeys == 1..MaxTableKey
TableVals == {0, 1}
TableWheres == {NoWhere} \cup {WhereId(k) : k \in TableKeys} \cup {WhereV(x) : x \in TableVals}

InsertRow(f, k, x) == [Insert(f, k) EXCEPT !.record = Record(k, x)]
UpdateWhere(f, where, col, val) == [Update(f, NULL, col, val) EXCEPT !.where = where]
DeleteWhere(f, where) == [Delete(f, NULL) EXCEPT !.where = where]

TableCommands ==
    {InsertRow("t", k, x) : k \in TableKeys, x \in TableVals}
    \cup {UpdateWhere("t", c, "v", x) : c \in TableWheres, x \in TableVals}
    \cup {UpdateWhere("t", c, "id", k) : c \in TableWheres, k \in TableKeys}
    \cup {DeleteWhere("t", c) : c \in TableWheres}
    \cup {CreateIndex("t")}

TableInit ==
    /\ files = [f \in Tables |-> IF f = "t" THEN <<Metadata(1, 2), BTreeNode(TRUE)>> ELSE <<>>]
    /\ jrnl = [f \in Tables |-> <<>>]
    /\ lock = [p \in Procs |-> "none"]
    /\ st = [p \in Procs |-> IF p = 1 THEN "up" ELSE "down"]
    /\ transaction_active = [p \in Procs |-> FALSE]
    /\ journaled_pages = [p \in Procs |-> NoJournaled]
    /\ in_transaction = [p \in Procs |-> FALSE]
    /\ sel = [p \in Procs |-> NoSel]
    /\ pre = [p \in Procs |-> NoFiles]
    /\ crashed = NoCrash
    /\ last = Event(1, "INIT", "ok")

StatementDone(p, cmd, w) ==
    /\ EndTransaction(p, w)
    /\ st' = [st EXCEPT ![p] = IF w.err = "hang" THEN "hung" ELSE @]
    /\ last' = [p |-> p, op |-> "STATEMENT", err |-> IF Ok(w) THEN w.ret ELSE w.err,
                cmd |-> cmd, count |-> w.count]

Execute(p, cmd) ==
    /\ Idle(p) /\ ~in_transaction[p]
    /\ CanLock(p, TRUE)
    /\ StatementDone(p, cmd,
                     ImplicitClose(dispatch_command(World(files, jrnl, TRUE, NoJournaled), cmd)))
    /\ Forget
    /\ UNCHANGED sel

Statement(p, cmd) == Offered(cmd) /\ Execute(p, cmd)

TableNext == \E cmd \in TableCommands : Statement(1, cmd)

TableSpec == TableInit /\ [][TableNext]_vars

(***************************************************************************)
(* The queries of one client on two tables: execute() for SELECT and WITH, *)
(* between the INSERT statements that fill the tables.  No other process   *)
(* holds a lock, so the shared lock of get_table_metadata and              *)
(* get_all_records is always granted at once.  A column v may hold None.   *)
(***************************************************************************)
QueryStatements ==
    {InsertRow(f, k, x) : f \in {"t", "u"}, k \in TableKeys, x \in {NULL, 1}}
    \cup {CreateTable("u")}

QueryWheres ==
    {NoClause,
     Condition(Col("", "id"), "=", 1),
     Condition(Col("", "v"), "=", 1),
     Condition(Col("", "id"), ">", 1),
     [type |-> "AND", conditions |-> <<Condition(Col("", "v"), "=", 1),
                                        Condition(Col("", "id"), ">", 1)>>],
     [type |-> "AND", conditions |-> <<Condition(Col("", "id"), ">", 1),
                                        Condition(Col("", "v"), "=", 1)>>],
     [type |-> "AND", conditions |-> <<Condition(Col("", "id"), "=", 1),
                                        Condition(Col("", "v"), "=", 1)>>],
     [type |-> "OR", conditions |-> <<Condition(Col("", "v"), "=", 1),
                                       Condition(Col("", "id"), "=", 2)>>]}

CountStar == Aggregate("COUNT", "*", "COUNT(*)")

Queries ==
    {Select(Wildcard, [type |-> "table", name |-> f], where) :
        f \in {"t", "u"}, where \in QueryWheres}
    \cup {Select(Wildcard, Join(join_type, "t", "u", left_column, right_column), NoClause) :
             join_type \in {"INNER", "LEFT"},
             left_column \in {"id", "v"}, right_column \in {"id", "v"}}
    \cup {Select(Wildcard, Join(join_type, "u", "t", "v", "id"), NoClause) :
             join_type \in {"INNER", "LEFT"}}
    \cup {Select(Wildcard, Join("LEFT", "t", "u", "v", "v"), Condition(Col("", "id"), "=", 1)),
          Select(Wildcard, Join("LEFT", "t", "u", "id", "id"), Condition(Col("u", "v"), "=", 1))}
    \cup {Select(columns, [type |-> "table", name |-> "t"], where) :
             columns \in {<<CountStar>>,
                          <<CountStar, Aggregate("COUNT", "v", "COUNT(v)")>>,
                          <<CountStar, Aggregate("SUM", "v", "SUM(v)")>>,
                          <<Aggregate("AVG", "v", "AVG(v)"), Aggregate("MIN", "id", "MIN(id)"),
                            Aggregate("MAX", "id", "MAX(id)"), CountStar>>},
             where \in QueryWheres}
    \cup {With(name, Select(Wildcard, [type |-> "table", name |-> "t"], NoClause),
               Select(Wildcard, [type |-> "table", name |-> name], where)) :
             name \in {"c", "u"}, where \in QueryWheres}

Query(p, command) ==
    /\ Idle(p) /\ ~in_transaction[p]
    /\ CanLock(p, FALSE)
    /\ last' = [p |-> p, op |-> "QUERY", cmd |-> command,
                err |-> execute_query(files, command).err,
                rows |-> execute_query(files, command).val]
    /\ UNCHANGED <<files, jrnl, lock, st, transaction_active, journaled_pages,
                   in_transaction, sel, pre, crashed>>

QueryNext ==
    \/ \E cmd \in QueryStatements :
          StoredRows(files[cmd.table]) < MaxQueryRows /\ Statement(1, cmd)
    \/ \E command \in Queries : Query(1, command)

QuerySpec == TableInit /\ [][QueryNext]_vars

(***************************************************************************)
(* The transactions of one process up to its death: BEGIN, write commands  *)
(* on the stored table t and on a table u that is yet to be created,       *)
(* COMMIT and ROLLBACK, until the process dies between two commands or     *)
(* inside one.  No engine is opened afterwards.                            *)
(***************************************************************************)
JournalCommands == WriteCommands \cup {CreateTable("u")} \cup {Insert("u", k) : k \in Keys}

JournalNext ==
    \/ Begin(1)
    \/ Commit(1)
    \/ Rollback(1)
    \/ \E cmd \in JournalCommands : Write(1, cmd)
    \/ \E cmd \in JournalCommands : Implicit(1, cmd)
    \/ Crash(1)
    \/ \E cmd \in JournalCommands : CrashInWrite(1, cmd)

JournalSpec == TableInit /\ [][JournalNext]_vars

(***************************************************************************)
(* One client that dies and is started again: besides the deaths of        *)
(* JournalSpec, inside commit_transaction between the removals of two      *)
(* journal files, inside the replay of a journal by ROLLBACK, and inside   *)
(* the replay of a journal by the recovery of the next engine.  A process  *)
(* that dies does not run its finally clauses.                             *)
(***************************************************************************)
CrashInCommit(p) ==
    /\ Idle(p) /\ in_transaction[p]
    /\ \E d \in CrashPoints(commit_journals(World(files, jrnl, TRUE, journaled_pages[p]), 1)) :
          /\ files' = d.files
          /\ jrnl' = d.jrnl
    /\ Die(p, TRUE)
    /\ last' = Event(p, "CRASH_IN_COMMIT", "ok")

CrashInRollback(p) ==
    /\ Idle(p) /\ in_transaction[p]
    /\ \E d \in CrashPoints(rollback_journals(World(files, jrnl, TRUE, journaled_pages[p]), 1)) :
          /\ files' = d.files
          /\ jrnl' = d.jrnl
    /\ Die(p, TRUE)
    /\ last' = Event(p, "CRASH_IN_ROLLBACK", "ok")

CrashInOpen(p) ==
    /\ st[p] = "down"
    /\ CanLock(p, TRUE)
    /\ \E d \in CrashPoints(recover_journals(World(files, jrnl, FALSE, NoJournaled),
                                              {f \in Tables : jrnl[f] # <<>>})) :
          /\ files' = d.files
          /\ jrnl' = d.jrnl
    /\ last' = Event(p, "CRASH_IN_OPEN", "ok")
    /\ UNCHANGED <<lock, st, transaction_active, journaled_pages, in_transaction,
                   sel, pre, crashed>>

RecoveryNext ==
    \/ JournalNext
    \/ CrashInCommit(1)
    \/ CrashInRollback(1)
    \/ Open(1)
    \/ CrashInOpen(1)

RecoverySpec == TableInit /\ [][RecoveryNext]_vars

(***************************************************************************)
(* One client that reads the table t and the table u, which exists only    *)
(* after a CREATE TABLE, inside and outside its transactions.              *)
(***************************************************************************)
ReadNext ==
    \/ Begin(1)
    \/ Commit(1)
    \/ Rollback(1)
    \/ \E cmd \in JournalCommands : Write(1, cmd)
    \/ \E cmd \in JournalCommands : Implicit(1, cmd)
    \/ \E f \in Tables, k \in Keys \cup {NULL} :
          SelectInTransaction(1, f, IF k = NULL THEN NoWhere ELSE WhereId(k))
    \/ \E f \in Tables, k \in Keys \cup {NULL} : ReadLock(1, f, k)
    \/ ReadMeta(1)
    \/ ReadProbe(1)
    \/ ReadScan(1)

ReadSpec == TableInit /\ [][ReadNext]_vars

(***************************************************************************)
(* One client that only inserts, each INSERT outside a transaction, with   *)
(* enough primary-key values to fill the root with pairwise distinct keys  *)
(* and insert one more, and enough rows to split a child of the root.      *)
(***************************************************************************)
TreeNext ==
    \E k \in 1..MaxTreeKey :
        StoredRows(files["t"]) < MaxTreeRows /\ Execute(1, Insert("t", k))

TreeSpec == TableInit /\ [][TreeNext]_vars

(***************************************************************************)
(* The claims.                                                             *)
(***************************************************************************)
Others(p) == Procs \ {p}

\* Every page the data files had `before` is there `now` with the same
\* content.  Pages past the old end of a file, which nothing refers to, are
\* left out of the comparison.
Restored(now, before) ==
    \A f \in Tables :
        /\ Len(now[f]) >= Len(before[f])
        /\ \A n \in 1..Len(before[f]) : now[f][n] = before[f][n]

\* C1: after ROLLBACK of an explicit transaction every page of every data
\* file has its content as of BEGIN.
C1_RollbackRestores ==
    [][last'.op = "ROLLBACK" /\ last'.err = "ok" => Restored(files', pre[last'.p])]_vars

\* C2: when a process has died inside its transaction, the construction of
\* the next StorageEngine leaves every data file as it was when that
\* transaction began.
C2_RecoveryRestores ==
    [][crashed.valid /\ last'.op = "OPEN" /\ last'.err = "ok"
       => Restored(files', crashed.files)]_vars

\* C3: once COMMIT has returned, constructing a new StorageEngine changes no
\* page of any data file.
C3_ReopenChangesNothing ==
    [][last.op = "COMMIT" /\ last.err = "ok" /\ last'.op = "OPEN" /\ last'.err = "ok"
       => files' = files]_vars

\* C4: no process holds a lock of any kind while another holds the exclusive
\* lock, and startup recovery and an implicit transaction, which take and
\* release the exclusive lock within one step, run only while no other
\* process holds a lock.
C4_MutualExclusion ==
    [][/\ \A p \in Procs : lock'[p] = "exclusive" => \A q \in Others(p) : lock'[q] = "none"
       /\ last'.op \in {"OPEN", "IMPLICIT"} /\ last'.err # "TimeoutError"
          => \A q \in Others(last'.p) : lock[q] = "none"]_vars

C4_Witness ==
    \E p \in Procs : /\ lock[p] = "exclusive"
                     /\ last.p # p /\ last.op = "READ_LOCK" /\ last.err = "TimeoutError"

\* C5: every page read of a SELECT outside a transaction (the metadata read,
\* the full scan, the primary-key probe) is made while the reader holds the
\* shared lock and while no other process has an active transaction.
C5_ReadsUnderSharedLock ==
    [][last'.op \in {"READ_META", "READ_SCAN", "READ_PROBE"}
       => /\ lock[last'.p] = "shared"
          /\ \A q \in Others(last'.p) : ~transaction_active[q]]_vars

\* C6: while another process is inside a transaction, a process that opens
\* the directory or starts a read gets nothing but the lock timeout, and no
\* read under the lock completes.
C6_FirstReadBlocked ==
    [][(\E q \in Others(last'.p) : transaction_active[q])
       => /\ last'.op \in {"OPEN", "READ_LOCK"}
             => /\ last'.err = "TimeoutError"
                /\ st'[last'.p] = st[last'.p]
                /\ sel'[last'.p] = sel[last'.p]
          /\ last'.op \notin {"READ_META", "READ_SCAN"}]_vars

C6_Witness ==
    /\ last.op \in {"OPEN", "READ_LOCK"} /\ last.err = "TimeoutError"
    /\ \E q \in Others(last.p) : transaction_active[q] /\ jrnl["t"] # <<>>

\* C7: a write command of an implicit transaction that raises leaves every
\* page of every data file as it was before the statement.
C7_ImplicitFailureRestores ==
    [][last'.op = "IMPLICIT" /\ last'.err \notin {"ok", "hang", "TimeoutError"}
       => Restored(files', files)]_vars

\* C8: when execute() has returned or raised for a write command given
\* outside a transaction, both flags of the process are false, its
\* journaled_pages is empty, it holds no lock, and no file the statement
\* wrote has a journal.
Touched(cmd) ==
    {f \in Tables : dispatch_command(World(files, jrnl, TRUE, NoJournaled), cmd).jp.pages[f] # {}}

C8_ImplicitSelfContained ==
    [][\A p \in Procs :
          last'.p = p /\ last'.op = "IMPLICIT" /\ last'.err # "hang"
          => /\ ~in_transaction'[p] /\ ~transaction_active'[p]
             /\ journaled_pages'[p] = NoJournaled
             /\ lock'[p] = "none"
             /\ \A cmd \in WriteCommands :
                   Implicit(p, cmd) => \A f \in Touched(cmd) : jrnl'[f] = <<>>]_vars

C8_Witness ==
    /\ last.op = "IMPLICIT" /\ last.err = "ValueError"
    /\ \E q \in Others(last.p) : st[q] = "up"

\* C9: a command that fails inside an explicit transaction leaves the
\* transaction active, the exclusive lock held, the journal and the data
\* files as the command left them, and a ROLLBACK that follows it restores
\* every page to its content as of BEGIN.
C9_NoAutoRollback ==
    [][/\ last'.op = "WRITE" /\ last'.err \notin {"ok", "hang"}
          => /\ in_transaction'[last'.p] /\ transaction_active'[last'.p]
             /\ lock'[last'.p] = "exclusive"
             /\ pre'[last'.p] = pre[last'.p]
             /\ \A f \in Tables : Len(jrnl'[f]) >= Len(jrnl[f])
       /\ last.op = "WRITE" /\ last.err \notin {"ok", "hang"}
          /\ last'.op = "ROLLBACK" /\ last'.err = "ok" /\ last'.p = last.p
          => Restored(files', pre[last'.p])]_vars

\* C10: BEGIN inside a transaction, and COMMIT or ROLLBACK outside one, raise
\* and change neither the transaction state nor the locks nor any file.
C10_StateErrors ==
    [][\A p \in Procs :
          /\ last'.p = p
          /\ \/ last'.op = "BEGIN" /\ in_transaction[p]
             \/ last'.op \in {"COMMIT", "ROLLBACK"} /\ ~in_transaction[p]
          => /\ last'.err = "ValueError"
             /\ UNCHANGED <<files, jrnl, lock, transaction_active, journaled_pages,
                            in_transaction>>]_vars

C10_Witness ==
    /\ last.op = "BEGIN" /\ last.err = "ValueError"
    /\ journaled_pages[last.p] # NoJournaled

\* C11: when the construction of a StorageEngine returns, no journal file is
\* left in the directory, whatever journals were there before, the process
\* holds no lock and its engine is ready.
C11_RecoveryComplete ==
    [][last'.op = "OPEN" /\ last'.err = "ok"
       => /\ \A f \in Tables : jrnl'[f] = <<>>
          /\ lock'[last'.p] = "none"
          /\ st'[last'.p] = "up"]_vars

C11_Witness ==
    /\ last.op = "OPEN" /\ last.err = "ok" /\ last.replayed
    /\ \A f \in Tables : jrnl[f] = <<>>

\* C12: inside a transaction a SELECT sees the row an INSERT of the same
\* transaction has stored (by the primary-key probe and by the full scan); a
\* full scan after COMMIT returns what it returned just before COMMIT, and a
\* full scan after ROLLBACK returns what it returned at BEGIN.
C12_ReadYourWrites ==
    [][/\ \A p \in Procs : \A k \in Keys :
             Write(p, Insert("t", k)) /\ last'.err = "ok"
             => /\ btree_search(files'["t"], k) = [err |-> "ok", val |-> Record(k, 0)]
                /\ InSeq(Record(k, 0), btree_get_all(files'["t"]).val)
       /\ last'.op = "COMMIT" /\ last'.err = "ok"
             => btree_get_all(files'["t"]) = btree_get_all(files["t"])
       /\ last'.op = "ROLLBACK" /\ last'.err = "ok"
             => btree_get_all(files'["t"]) = btree_get_all(pre[last'.p]["t"])]_vars

\* C13: right after an INSERT of record r has succeeded, the primary-key
\* search for r's key returns r.
C13_InsertSearchRoundTrip ==
    last.op = "STATEMENT" /\ last.cmd.type = "INSERT" /\ last.err = "ok"
    => btree_search(files["t"], last.cmd.record.id) = [err |-> "ok", val |-> last.cmd.record]

\* C15: CREATE_INDEX on an existing table succeeds.  (What a successful
\* CREATE_INDEX leaves on disk has no counterpart in the code: the statement
\* never gets as far as creating an index file.)
C15_CreateIndexSucceeds ==
    last.op = "STATEMENT" /\ last.cmd.type = "CREATE_INDEX" /\ files[last.cmd.table] # <<>>
    => last.err = "ok"

\* The rows of table t as a full scan returns them, the records a statement
\* can store, and how often a record occurs in a sequence of rows.
ScanRows(fs) == btree_get_all(fs["t"])
AllRecords == {Record(k, x) : k \in TableKeys, x \in TableVals}
RowCount(rows, r) == Cardinality({i \in 1..Len(rows) : rows[i] = r})

\* A row after UPDATE ... SET col = val WHERE c: changed in that column when
\* it satisfies c, as it was otherwise.
Patched(r, cmd) ==
    IF ~Matches(r, cmd.where) THEN r
    ELSE IF cmd.set.col = "id" THEN [r EXCEPT !.id = cmd.set.val]
    ELSE [r EXCEPT !.v = cmd.set.val]

UpdateEffect(before, after, cmd, count) ==
    /\ after.err = "ok"
    /\ \A r \in AllRecords :
          RowCount(after.val, r)
          = Cardinality({i \in 1..Len(before) : Patched(before[i], cmd) = r})
    /\ count = Cardinality({i \in 1..Len(before) : Matches(before[i], cmd.where)})

\* C16: after a successful UPDATE every row that matched the WHERE clause
\* has the SET column at its new value and its other column unchanged, every
\* other row is unchanged, and the reported count is the number of rows that
\* matched.
C16_UpdateEffectAndFrame ==
    [][last'.op = "STATEMENT" /\ last'.cmd.type = "UPDATE" /\ last'.err = "ok"
       /\ ScanRows(files).err = "ok"
       => UpdateEffect(ScanRows(files).val, ScanRows(files'), last'.cmd, last'.count)]_vars

\* What the reads of table t return: the full scan, the primary-key search
\* for every key, and the rows of a SELECT for every WHERE clause.
Observed(fs) ==
    [scan |-> ScanRows(fs),
     pk |-> [k \in TableKeys |-> btree_search(fs["t"], k)],
     select |-> [c \in TableWheres |->
                    LET w == execute_select(World(fs, jrnl, TRUE, NoJournaled), "t", c)
                    IN [err |-> w.err, rows |-> IF Ok(w) THEN w.ret ELSE <<>>]]]

\* Every row of `rows` that satisfies the WHERE clause of cmd already has the
\* value cmd sets.
SetsCurrentValue(rows, cmd) ==
    \A i \in 1..Len(rows) : Patched(rows[i], cmd) = rows[i]

\* C17: an UPDATE that sets a column of the matching rows to the value it
\* already has changes the result of no later full scan, primary-key search
\* or SELECT.
C17_UpdateIdempotent ==
    [][last'.op = "STATEMENT" /\ last'.cmd.type = "UPDATE" /\ last'.err = "ok"
       /\ ScanRows(files).err = "ok" /\ SetsCurrentValue(ScanRows(files).val, last'.cmd)
       => Observed(files') = Observed(files)]_vars

DeleteEffect(before, after, fs, where) ==
    /\ after.err = "ok"
    /\ \A r \in AllRecords :
          RowCount(after.val, r) = IF Matches(r, where) THEN 0 ELSE RowCount(before, r)
    /\ \A k \in TableKeys :
          LET found == btree_search(fs["t"], k)
          IN found.err = "ok" /\ (found.val = ZeroPage \/ ~Matches(found.val, where))

\* C18: after a successful DELETE with a WHERE clause no row that satisfies
\* the clause is returned by the full scan or by a primary-key search, every
\* other row is still there unchanged, and a DELETE that no row satisfies
\* succeeds and changes nothing.
C18_DeleteEffectAndFrame ==
    [][last'.op = "STATEMENT" /\ last'.cmd.type = "DELETE" /\ last'.cmd.where # NoWhere
       /\ ScanRows(files).err = "ok"
       => /\ last'.err = "ok"
             => DeleteEffect(ScanRows(files).val, ScanRows(files'), files', last'.cmd.where)
          /\ Filter(ScanRows(files).val, last'.cmd.where) = <<>>
             => last'.err = "ok" /\ files' = files]_vars

\* The engine and the storage engine of p are idle and p holds no lock.
IdleAfter(p) ==
    /\ ~in_transaction'[p] /\ ~transaction_active'[p]
    /\ journaled_pages'[p] = NoJournaled
    /\ lock'[p] = "none"

\* What a DELETE without WHERE does when it runs inside a transaction
\* (execute, line 34) on the files fs: it raises and writes nothing.
RefusedInTransaction(fs) ==
    LET w == dispatch_command(World(fs, jrnl, TRUE, NoJournaled), DeleteWhere("t", NoWhere))
    IN w.err = "ValueError" /\ w.files = fs /\ w.trace = <<>>

\* C19: a DELETE without a WHERE clause raises ValueError and changes no
\* page of any file and no journal; run outside a transaction it leaves the
\* engine idle and the lock released.
C19_DeleteNeedsWhere ==
    [][/\ last'.op = "STATEMENT" /\ last'.cmd.type = "DELETE" /\ last'.cmd.where = NoWhere
          => /\ last'.err = "ValueError"
             /\ files' = files /\ jrnl' = jrnl
             /\ IdleAfter(last'.p)
       /\ RefusedInTransaction(files')]_vars

C19_Witness ==
    /\ last.op = "STATEMENT" /\ last.cmd.type = "DELETE" /\ last.cmd.where = NoWhere
    /\ last.err = "ValueError"
    /\ Len(ScanRows(files).val) >= 2

\* The rows are in ascending order of the primary key.
Ascending(rows) == \A i \in 1..Len(rows) - 1 : rows[i].id <= rows[i + 1].id

\* The scan after an INSERT yields the rows of the scan before it and the new
\* record, each once.
ScanAfterInsert(before, after, record) ==
    /\ after.err = "ok"
    /\ Ascending(after.val)
    /\ \A r \in AllRecords :
          RowCount(after.val, r) = RowCount(before, r) + IF r = record THEN 1 ELSE 0

\* The scan after a DELETE of count rows yields the remaining rows of the
\* scan before it, each once.
ScanAfterDelete(before, after, count) ==
    /\ after.err = "ok"
    /\ Ascending(after.val)
    /\ Len(after.val) = Len(before) - count
    /\ \A r \in AllRecords : RowCount(after.val, r) <= RowCount(before, r)

\* C20: after every successful INSERT or DELETE the full scan yields every
\* live record (the records scanned before, plus the inserted one, minus the
\* deleted ones) exactly once and in ascending primary-key order.
C20_OrderedFullScan ==
    [][last'.op = "STATEMENT" /\ last'.err = "ok" /\ ScanRows(files).err = "ok"
       => /\ last'.cmd.type = "INSERT"
             => ScanAfterInsert(ScanRows(files).val, ScanRows(files'), last'.cmd.record)
          /\ last'.cmd.type = "DELETE"
             => ScanAfterDelete(ScanRows(files).val, ScanRows(files'), last'.count)]_vars

\* The value of a column of a stored record.
ColumnOf(record, name) == IF name = "id" THEN record.id ELSE record.v

\* The row of a join for the left record a and the right record b, and the
\* row for a left record without a partner.
Combined(a, b, join) ==
    <<Item(Col(join.left.name, "id"), a.id), Item(Col(join.left.name, "v"), a.v),
      Item(Col(join.right.name, "id"), b.id), Item(Col(join.right.name, "v"), b.v)>>
LeftOnly(a, join) == Combined(a, Record(NULL, NULL), join)

JoinPairs(l, r, on) ==
    {pair \in (1..Len(l)) \X (1..Len(r)) :
        ColumnOf(l[pair[1]], on.left_column) = ColumnOf(r[pair[2]], on.right_column)}
Unmatched(l, r, on) == {i \in 1..Len(l) : \A j \in 1..Len(r) : <<i, j>> \notin JoinPairs(l, r, on)}

JoinExpected(l, r, join) ==
    {Combined(l[pair[1]], r[pair[2]], join) : pair \in JoinPairs(l, r, join.on)}
    \cup {LeftOnly(l[i], join) : i \in 1..Len(l)}

\* Every row x is in the result once per pair of equal join values it
\* combines and, in a LEFT join, once per left row without a partner.
JoinResult(rows, l, r, join) ==
    \A x \in JoinExpected(l, r, join) \cup {rows[i] : i \in 1..Len(rows)} :
        RowCount(rows, x)
        = Cardinality({pair \in JoinPairs(l, r, join.on) :
                          Combined(l[pair[1]], r[pair[2]], join) = x})
          + IF join.join_type = "LEFT"
            THEN Cardinality({i \in Unmatched(l, r, join.on) : LeftOnly(l[i], join) = x})
            ELSE 0

\* C21: the result of a join of two tables holds exactly one combined row per
\* pair of a left and a right row with equal join-column values; a LEFT join
\* holds in addition exactly one row per left row without a partner, with
\* every right-side column None; an INNER join holds nothing else.
C21_JoinSemantics ==
    /\ last.op = "QUERY" /\ last.cmd.type = "SELECT" /\ last.err = "ok"
    /\ last.cmd.from.type = "join" /\ last.cmd.where = NoClause
    => JoinResult(last.rows,
                  btree_get_all(files[last.cmd.from.left.name]).val,
                  btree_get_all(files[last.cmd.from.right.name]).val,
                  last.cmd.from)

C21_Witness ==
    /\ last.op = "QUERY" /\ last.cmd.type = "SELECT" /\ last.err = "ok"
    /\ last.cmd.from.type = "join" /\ last.cmd.where = NoClause
    /\ last.cmd.from.join_type = "LEFT"
    /\ \E i \in 1..Len(last.rows) : DictGet(last.rows[i], Col("u", "id")) = NULL
    /\ \E i \in 1..Len(last.rows) : DictGet(last.rows[i], Col("u", "id")) # NULL
    /\ Len(ScanRows(files).val) = 2

\* The rows of the CTE of a WITH whose CTE is SELECT * FROM t.
CteRows(fs) == [i \in 1..Len(ScanRows(fs).val) |-> Row(ScanRows(fs).val[i])]

\* C22: a WITH whose main query selects FROM its CTE succeeds, whatever the
\* shape of the WHERE clause and whether or not a table of the CTE's name is
\* stored, and returns exactly the rows of the CTE that satisfy the WHERE
\* clause.
C22_CteAsSource ==
    last.op = "QUERY" /\ last.cmd.type = "WITH" /\ ScanRows(files).err = "ok"
    => /\ last.err = "ok"
       /\ last.rows = filter_records(CteRows(files), last.cmd.main_query.where)

\* C23: in a SELECT without GROUP BY the value under COUNT(*) is the
\* number of rows that pass the WHERE clause, 0 included, whatever other
\* aggregates the SELECT list holds.
C23_CountStar ==
    /\ last.op = "QUERY" /\ last.cmd.type = "SELECT" /\ last.err = "ok"
    /\ \E i \in 1..Len(last.cmd.columns) : last.cmd.columns[i] = CountStar
    => /\ Len(last.rows) = 1
       /\ DictGet(last.rows[1], Col("", "COUNT(*)"))
          = Len(select_rows(files, Select(Wildcard, last.cmd.from, last.cmd.where),
                            [n \in {} |-> <<>>]).val)

\* C24: a BEGIN or an implicit-transaction write of a process that cannot
\* get the exclusive lock ends in TimeoutError, and such a step changes no
\* data page and no journal and leaves the engine and the storage engine of
\* the process idle and the process without a lock.
C24_LockTimeout ==
    [][last'.op \in {"BEGIN", "IMPLICIT"} /\ ~in_transaction[last'.p]
       => /\ ~CanLock(last'.p, TRUE) => last'.err = "TimeoutError"
          /\ last'.err = "TimeoutError"
             => /\ ~CanLock(last'.p, TRUE)
                /\ files' = files /\ jrnl' = jrnl
                /\ IdleAfter(last'.p)]_vars

C24_Witness ==
    /\ last.op = "IMPLICIT" /\ last.err = "TimeoutError"
    /\ \E q \in Others(last.p) : lock[q] = "exclusive" /\ jrnl["t"] # <<>>
    /\ lock[last.p] = "none"

\* The entries a step appended to the journal of f.
Appended(f) == SubSeq(jrnl'[f], Len(jrnl[f]) + 1, Len(jrnl'[f]))

\* C25: a write command inside a transaction only appends to the journals;
\* the entries it appends to the journal of a file are of pairwise different
\* pages that the transaction had not journaled before, each holds the bytes
\* of its page as of the transaction's begin, and the pages are recorded in
\* journaled_pages.
C25_FirstPreImage ==
    [][last'.op = "WRITE"
       => \A f \in Tables :
             /\ Len(jrnl'[f]) >= Len(jrnl[f])
             /\ SubSeq(jrnl'[f], 1, Len(jrnl[f])) = jrnl[f]
             /\ \A i \in 1..Len(Appended(f)) :
                   /\ Appended(f)[i].page \notin journaled_pages[last'.p].pages[f]
                   /\ \A j \in 1..Len(Appended(f)) :
                         j # i => Appended(f)[j].page # Appended(f)[i].page
                   /\ Appended(f)[i].data = RawRead(pre[last'.p][f], Appended(f)[i].page)
             /\ journaled_pages'[last'.p].pages[f]
                = journaled_pages[last'.p].pages[f]
                  \cup {Appended(f)[i].page : i \in 1..Len(Appended(f))}]_vars

(* C26: every journal entry appended by a write statement is the page     *)
(* number followed by exactly PAGE_SIZE bytes of pre-image, also for a    *)
(* page allocated at or beyond the end of the data file: no appended      *)
(* entry carries fewer bytes than a page.                                 *)
C26_EntryFormat ==
    [][last'.op = "WRITE"
       => \A f \in Tables :
             \A i \in 1..Len(Appended(f)) : Appended(f)[i].data # ShortData]_vars

(* C27: at every point at which a process can die inside a transaction,   *)
(* every page of every data file that differs from its content at the     *)
(* transaction's begin has a journal entry holding that content.          *)
C27_JournalBeforeData ==
    last.op \in {"CRASH", "CRASH_IN_WRITE"} /\ crashed.valid
    => \A f \in Tables :
          \A n \in 0..(Len(files[f]) - 1) :
             RawRead(files[f], n) # RawRead(crashed.files[f], n)
             => \E i \in 1..Len(jrnl[f]) :
                   /\ jrnl[f][i].page = n
                   /\ jrnl[f][i].data = RawRead(crashed.files[f], n)

(* C28: without a crash, whenever the storage engine has no transaction   *)
(* active its journaled_pages map is empty and no journal file exists;    *)
(* a journal file exists only while a transaction that has written a page *)
(* of that data file is active.  In JournalSpec a process that is not     *)
(* down has never died.                                                   *)
C28_JournalLifecycle ==
    st[1] # "down"
    => /\ ~transaction_active[1]
          => /\ journaled_pages[1] = NoJournaled
             /\ \A f \in Tables : jrnl[f] = <<>>
       /\ \A f \in Tables :
             jrnl[f] # <<>>
             => /\ transaction_active[1]
                /\ journaled_pages[1].pages[f] # {}

C28_Witness ==
    /\ st[1] = "up" /\ ~transaction_active[1]
    /\ last.op = "COMMIT" /\ last.err = "ok"
    /\ StoredRows(files["t"]) > 0 /\ files["u"] # <<>>
    /\ journaled_pages[1] = NoJournaled
    /\ \A f \in Tables : jrnl[f] = <<>>

\* The root node of a table file.
RootOf(pages) == read_page(pages, pages[1].root_page)

(* C29: an INSERT into a table whose root holds 2t-1 keys terminates: it  *)
(* returns, the new root is the page that was next_page, its children are *)
(* the old root and the new sibling, root_page names the new root, and    *)
(* the inserted key is found with its record.                             *)
C29_FullRootInsert ==
    [][/\ last'.op = "STATEMENT" /\ last'.cmd.type = "INSERT"
       /\ Len(RootOf(files["t"]).keys) = 2 * BTREE_ORDER - 1
       => /\ st'[1] = "up" /\ last'.err = "ok"
          /\ files'["t"][1].root_page = files["t"][1].next_page
          /\ RootOf(files'["t"]).children
             = <<files["t"][1].root_page, files["t"][1].next_page + 1>>
          /\ btree_search(files'["t"], last'.cmd.record.id)
             = [err |-> "ok", val |-> last'.cmd.record]]_vars

\* The records a full scan yields, as a set; the keys among them.
Scanned_(pages) == {btree_get_all(pages).val[i] : i \in 1..Len(btree_get_all(pages).val)}
ScannedKeys(pages) == {r.id : r \in Scanned_(pages)}

\* Every record of rows is found by its key, and the full scan yields
\* exactly rows, each record once.
AllFound(pages, rows) ==
    /\ btree_get_all(pages).err = "ok"
    /\ Len(btree_get_all(pages).val) = Cardinality(rows)
    /\ Scanned_(pages) = rows
    /\ \A r \in rows : btree_search(pages, r.id) = [err |-> "ok", val |-> r]

\* No page has been allocated since CREATE TABLE: the root leaf on page 1
\* holds the record of every INSERT so far.
Unsplit(pages) == pages[1].root_page = 1 /\ pages[1].next_page = 2

Referenced(pages) ==
    {pages[1].root_page}
    \cup UNION {{pages[n].children[i] : i \in 1..Len(pages[n].children)} :
                   n \in {m \in 2..Len(pages) : pages[m].kind = "node"}}

(* C31: after every completed INSERT the next_page stored in page 0 is    *)
(* greater than every page number the file names as its root or as a      *)
(* child of a node, also when the insert split a child of the root.       *)
C31_PageAllocation ==
    (last.op = "STATEMENT" /\ last.cmd.type = "INSERT" /\ last.err = "ok" /\ st[1] = "up")
    => \A n \in Referenced(files["t"]) : n < files["t"][1].next_page

\* The page of the child that _insert_non_full descends to from the root
\* for key: the child after the root's keys that are not greater than key.
TargetPage(pages, key) ==
    RootOf(pages).children[
        Cardinality({i \in 1..Len(RootOf(pages).keys) : RootOf(pages).keys[i] <= key}) + 1]

\* The root is an internal node with room, and the leaf that the insert of
\* key descends to is in the file and has room: the insert modifies this
\* leaf only.
LeafInsert(pages, key) ==
    /\ ~RootOf(pages).is_leaf
    /\ Len(RootOf(pages).keys) < 2 * BTREE_ORDER - 1
    /\ Len(RootOf(pages).children) = Len(RootOf(pages).keys) + 1
    /\ TargetPage(pages, key) < Len(pages)
    /\ read_page(pages, TargetPage(pages, key)).kind = "node"
    /\ read_page(pages, TargetPage(pages, key)).is_leaf
    /\ Len(read_page(pages, TargetPage(pages, key)).keys) < 2 * BTREE_ORDER - 1

(* C32: a modified node is written back to the page it was read from.  An *)
(* INSERT that only adds its key to a leaf below the root writes that     *)
(* leaf's page and no other: the page then holds the leaf's keys with the *)
(* new key, and every other page, the root's included, is as it was, also *)
(* when the key becomes the leaf's first key or equals the first key of   *)
(* another node.                                                          *)
C32_WriteBackOwnPage ==
    [][/\ last'.op = "STATEMENT" /\ last'.cmd.type = "INSERT"
       /\ LeafInsert(files["t"], last'.cmd.record.id)
       => /\ last'.err = "ok"
          /\ Len(files'["t"]) = Len(files["t"])
          /\ \A n \in 0..(Len(files["t"]) - 1) :
                IF n = TargetPage(files["t"], last'.cmd.record.id)
                THEN /\ read_page(files'["t"], n).kind = "node"
                     /\ read_page(files'["t"], n).is_leaf
                     /\ Len(read_page(files'["t"], n).keys)
                        = Len(read_page(files["t"], n).keys) + 1
                     /\ \E i \in 1..Len(read_page(files'["t"], n).keys) :
                           read_page(files'["t"], n).keys[i] = last'.cmd.record.id
                ELSE read_page(files'["t"], n) = read_page(files["t"], n)]_vars

\* A WHERE clause that _execute_select answers with the primary-key probe.
ProbeEligible(where) ==
    \/ where.type = "condition" /\ where.column = Col("", "id") /\ where.operator = "="
    \/ /\ where.type = "AND"
       /\ where.conditions[1].column = Col("", "id")
       /\ where.conditions[1].operator = "="

\* The rows of a list, as a set.
RowSet(rows) == {rows[i] : i \in 1..Len(rows)}

(* C33: for a WHERE clause that is eligible for the primary-key probe,    *)
(* SELECT * on a table returns the same set of rows as the full scan of   *)
(* the table filtered by the whole WHERE clause.                          *)
C33_PlanEquivalence ==
    (/\ last.op = "QUERY" /\ last.cmd.type = "SELECT"
     /\ last.cmd.from.type = "table" /\ last.cmd.columns = Wildcard
     /\ files[last.cmd.from.name] # <<>>
     /\ ProbeEligible(last.cmd.where))
    => /\ last.err = "ok"
       /\ RowSet(last.rows)
          = RowSet(filter_records(
                       full_scan(files, last.cmd.from.name, [n \in {} |-> <<>>]).val,
                       last.cmd.where))

(* C34: get_table_metadata and get_all_records take the shared lock only  *)
(* when no transaction is active; when either call has returned or raised *)
(* outside a transaction, also for a table that does not exist, the       *)
(* process holds no lock; inside a transaction a SELECT or a write        *)
(* statement, which call them, leave the exclusive lock as it is.         *)
C34_ScopedReadLock ==
    [][/\ last'.op = "READ_LOCK" /\ last'.err = "ok"
          => ~transaction_active[last'.p] /\ lock'[last'.p] = "shared"
       /\ last'.op \in {"READ_META", "READ_SCAN"} /\ st'[last'.p] = "up"
          => ~transaction_active'[last'.p] /\ lock'[last'.p] = "none"
       /\ last'.op \in {"SELECT", "WRITE"}
          => /\ transaction_active[last'.p]
             /\ lock[last'.p] = "exclusive" /\ lock'[last'.p] = "exclusive"]_vars

\* A read of the table u, which does not exist, has raised outside a
\* transaction and the process holds no lock.
C34_Witness ==
    /\ last.op \in {"READ_META", "READ_SCAN"} /\ last.err # "ok"
    /\ files["u"] = <<>>
    /\ ~transaction_active[1] /\ lock[1] = "none"

(* C35: when a process dies inside commit_transaction between the         *)
(* removals of the journals of two data files, the recovery of the next   *)
(* engine leaves the data files either all as the transaction left them   *)
(* or all as they were when it began.                                     *)
C35_AtomicCommit ==
    [][/\ last.op = "CRASH_IN_COMMIT" /\ crashed.valid
       /\ last'.op = "OPEN" /\ last'.err = "ok"
       => \/ files' = files
          \/ Restored(files', crashed.files)]_vars

\* A page of f that exists in all three directory states, holds in `now`
\* what the dead transaction wrote (as in `dirty`), and held something else
\* when that transaction began.
Uncommitted(now, dirty, before, f) ==
    \E n \in 1..Len(before[f]) :
        /\ n <= Len(dirty[f]) /\ n <= Len(now[f])
        /\ dirty[f][n] # before[f][n]
        /\ now[f][n] = dirty[f][n]

(* C36: when a process has died inside its transaction while another      *)
(* process has the directory open, a full scan by that process returns     *)
(* what the scan of the files as of the dead transaction's begin returns,  *)
(* and a write statement of that process does not leave a page with the    *)
(* dead transaction's content in a data file whose journal is gone.        *)
C36_NoOrphanWrites ==
    [][crashed.valid
       => /\ last'.op = "READ_SCAN" /\ st[last'.p] = "up"
             => btree_get_all(files[sel[last'.p].table])
                = btree_get_all(crashed.files[sel[last'.p].table])
          /\ last'.op = "IMPLICIT" /\ last'.err = "ok"
             => \A f \in Tables :
                   jrnl[f] # <<>> /\ jrnl'[f] = <<>>
                   => ~Uncommitted(files', files, crashed.files, f)]_vars

\* get_table_metadata(f) reports that the table does not exist.
TableNotFound(fs, f) ==
    get_table_metadata(World(fs, jrnl, FALSE, NoJournaled), f).err = "FileNotFoundError"

(* C37: a table created inside a transaction does not exist after the     *)
(* transaction is rolled back, by ROLLBACK or by the recovery that         *)
(* follows the death of the process: get_table_metadata reports that the  *)
(* table is not found.                                                     *)
C37_RollbackUndoesCreate ==
    [][\A f \in Tables :
          /\ (/\ last'.op = "ROLLBACK" /\ last'.err = "ok"
              /\ pre[last'.p][f] = <<>> /\ files[f] # <<>>)
             => TableNotFound(files', f)
          /\ (/\ last'.op = "OPEN" /\ last'.err = "ok"
              /\ crashed.valid /\ crashed.files[f] = <<>> /\ files[f] # <<>>)
             => TableNotFound(files', f)]_vars

(* C38: after any sequence of INSERT, UPDATE and DELETE statements the    *)
(* table holds at most one entry per primary-key value: get_all_records   *)
(* never yields two records with the same primary key.                    *)
C38_PrimaryKeyUnique ==
    last.op = "STATEMENT"
    => \A i, j \in 1..Len(btree_get_all(files["t"]).val) :
          i # j => btree_get_all(files["t"]).val[i].id # btree_get_all(files["t"]).val[j].id

(* C39: while a process has an active transaction, the construction of an *)
(* engine by another process replays no journal and deletes none: it      *)
(* waits for the lock and raises TimeoutError, with the data files and    *)
(* the journal files as they were.                                        *)
C39_RecoveryWaits ==
    [][/\ last'.op = "OPEN"
       /\ \E q \in Others(last'.p) : transaction_active[q]
       => /\ last'.err = "TimeoutError"
          /\ st'[last'.p] = "down"
          /\ jrnl' = jrnl
          /\ files' = files]_vars

\* A construction has timed out while another process is inside a
\* transaction that has journaled a page, and the journal is still there.
C39_Witness ==
    /\ last.op = "OPEN" /\ last.err = "TimeoutError"
    /\ \E q \in Others(last.p) :
          /\ transaction_active[q] /\ lock[q] = "exclusive"
          /\ journaled_pages[q].pages["t"] # {}
    /\ jrnl["t"] # <<>>

\* The steps in which a process dies while it replays a journal.
ReplayCrash(op) == op \in {"CRASH_IN_ROLLBACK", "CRASH_IN_OPEN"}

\* The replay of a data file's journal is finished: every page the file had
\* `before` has its content back.
Replayed(now, before) ==
    /\ Len(now) >= Len(before)
    /\ \A n \in 1..Len(before) : now[n] = before[n]

(* C40: when a process dies while it replays a journal, in ROLLBACK or in  *)
(* the recovery of a construction, the journal of every data file whose    *)
(* replay was not finished is still there as it was, and the recovery of   *)
(* the next construction leaves no journal and every data file with its    *)
(* content as of the begin of the transaction.                             *)
C40_RestartableRecovery ==
    [][/\ ReplayCrash(last'.op)
          => \A f \in Tables :
                \/ jrnl'[f] = jrnl[f]
                \/ jrnl'[f] = <<>> /\ crashed'.valid /\ Replayed(files'[f], crashed'.files[f])
       /\ ReplayCrash(last.op) /\ crashed.valid /\ last'.op = "OPEN" /\ last'.err = "ok"
          => /\ \A f \in Tables : jrnl'[f] = <<>>
             /\ Restored(files', crashed.files)]_vars

====
